---- MODULE Spec2Model ----
(***************************************************************************)
(* Dialog/session protocol engine and intent pipeline of the 1auth SDK     *)
(* (OneAuthClient in src/src/react.tsx, provider storage in                *)
(* src/src/provider.ts).                                                   *)
(*                                                                         *)
(* One client operation runs at a time.  Every action is one task of the   *)
(* browser event loop: a message event, a keyboard or click event, a       *)
(* queued dialog "close" event, a fetch response or a timer, followed by   *)
(* the promise continuations (microtasks) it triggers, up to the next      *)
(* await of a task.                                                        *)
(***************************************************************************)
EXTENDS Integers, Sequences, FiniteSets, TLC

(***************************************************************************)
(* Bounds                                                                  *)
(***************************************************************************)
\* attempts of the status poll loop (maxAttempts, 120 in the source)
maxAttempts == 1
\* PASSKEY_INIT posts after which further ready signals are not generated
MaxInits == 2
\* quote refresh requests per Session
MaxRefresh == 1
\* iterations of the hash wait loop before the deadline is certainly passed
MaxHashPolls == 1
\* intents of a batch
MaxBatch == 1

(***************************************************************************)
(* Configuration                                                           *)
(***************************************************************************)
DEFAULT_PROVIDER_URL == "https://passkey.1auth.box"
DEFAULT_STORAGE_KEY == "1auth-user"
CustomStorageKey == "my-app-user"
StorageKeys == {DEFAULT_STORAGE_KEY, CustomStorageKey}

EvilOrigin == "https://evil.example"

\* new URL(u).origin for the URLs of the model
UrlOrigin(u) ==
    CASE u = "https://passkey.1auth.box" -> "https://passkey.1auth.box"
      [] u = "https://passkey.1auth.box/app" -> "https://passkey.1auth.box"
      [] OTHER -> u

getDialogUrl == DEFAULT_PROVIDER_URL

getDialogOrigin == UrlOrigin(getDialogUrl)

Origins == {getDialogOrigin, EvilOrigin}

\* the guard every listener starts with: event.origin !== dialogOrigin => return
OriginOkNoGuard(origin) == TRUE

OriginOk(origin) == origin = getDialogOrigin

(***************************************************************************)
(* Vocabulary                                                              *)
(***************************************************************************)
Ops == {"signMessage", "signTypedData", "signWithModal", "sendIntent",
        "sendBatchIntent", "connectWithModal", "authWithModal", "authenticate"}

HandshakeOps == {"signMessage", "signTypedData", "signWithModal",
                 "connectWithModal", "sendIntent", "sendBatchIntent"}

SigningOps == {"signMessage", "signTypedData", "signWithModal"}

MsgTypes == {"PASSKEY_READY", "PASSKEY_CLOSE", "PASSKEY_SIGNING_RESULT",
             "PASSKEY_LOGIN_RESULT", "PASSKEY_REGISTER_RESULT",
             "PASSKEY_AUTHENTICATE_RESULT", "PASSKEY_CONNECT_RESULT",
             "PASSKEY_RETRY_POPUP", "PASSKEY_RESIZE", "PASSKEY_DISCONNECT",
             "PASSKEY_REFRESH_QUOTE"}

ResultTypes == {"PASSKEY_SIGNING_RESULT", "PASSKEY_LOGIN_RESULT",
                "PASSKEY_REGISTER_RESULT", "PASSKEY_AUTHENTICATE_RESULT",
                "PASSKEY_CONNECT_RESULT"}

\* message.data of a result message: what the payload carries
Payloads == {"none", "signature", "intentId", "batchResults", "username", "switch"}

PayloadsOf(type) ==
    CASE type = "PASSKEY_SIGNING_RESULT" -> {"none", "signature", "intentId", "batchResults"}
      [] type \in {"PASSKEY_LOGIN_RESULT", "PASSKEY_REGISTER_RESULT",
                   "PASSKEY_AUTHENTICATE_RESULT"} -> {"none", "username"}
      [] type = "PASSKEY_CONNECT_RESULT" -> {"none", "username", "switch"}
      [] OTHER -> {"none"}

\* event.source of a message event: the iframe of this Session, the iframe of
\* another Session of the same client (same dialog origin), or any other
\* window.  No listener reads the source, and none reads the payload of a
\* message before its origin: messages of the other sources come one per type.
Sources == {"iframe", "otherSession", "elsewhere"}

Messages ==
    { m \in [type : MsgTypes, origin : Origins, source : Sources,
             success : BOOLEAN, payload : Payloads] :
        /\ m.payload \in PayloadsOf(m.type)
        /\ (m.type \notin ResultTypes => m.success)
        /\ (m.origin = getDialogOrigin <=> m.source \in {"iframe", "otherSession"})
        /\ (m.source # "iframe" => m.success /\ m.payload = "none") }

Statuses == {"pending", "claimed", "preconfirmed", "filled", "completed",
             "failed", "expired"}

CloseOnValues == {"undefined", "claimed", "preconfirmed", "filled", "completed"}

(***************************************************************************)
(* Options of sendIntent / sendBatchIntent.  A flag says that the field is *)
(* present (truthy); calls is "undefined", "empty" ([]) or "nonempty".     *)
(***************************************************************************)
CallsValues == {"undefined", "empty", "nonempty"}

DefaultOptions ==
    [signed |-> FALSE, siMerchantId |-> FALSE, siDeveloperId |-> FALSE,
     siUsername |-> FALSE, siAccountAddress |-> FALSE, siTargetChain |-> FALSE,
     siCalls |-> "undefined", username |-> TRUE, targetChain |-> TRUE,
     calls |-> "nonempty", intents |-> TRUE, closeOn |-> "undefined",
     waitForHash |-> FALSE]

SignedOptions ==
    [DefaultOptions EXCEPT !.signed = TRUE, !.siDeveloperId = TRUE,
                           !.siAccountAddress = TRUE, !.siTargetChain = TRUE,
                           !.siCalls = "nonempty", !.username = FALSE,
                           !.targetChain = FALSE, !.calls = "undefined"]

\* every shape of the options the validation of sendIntent can see
AllOptions ==
    { o \in [signed : BOOLEAN, siMerchantId : BOOLEAN, siDeveloperId : BOOLEAN,
             siUsername : BOOLEAN, siAccountAddress : BOOLEAN,
             siTargetChain : BOOLEAN, siCalls : CallsValues, username : BOOLEAN,
             targetChain : BOOLEAN, calls : CallsValues, intents : {TRUE},
             closeOn : {"undefined"}, waitForHash : {FALSE}] :
        ~o.signed => /\ ~o.siMerchantId /\ ~o.siDeveloperId /\ ~o.siUsername
                     /\ ~o.siAccountAddress /\ ~o.siTargetChain
                     /\ o.siCalls = "undefined" }

(***************************************************************************)
(* State                                                                   *)
(***************************************************************************)
VARIABLES
    op,          \* the client operation being run
    opts,        \* its options
    storageKey,  \* the provider's configured storage key
    storage,     \* localStorage: key -> "none" | "user"
    pc,          \* where the operation's async function is suspended
    dialog,      \* Dialog Host: the <dialog>, its frame and host listeners
    hs,          \* closure of waitForDialogReady
    waiterL,     \* the result waiter's message listener is registered
    cw,          \* closure of waitForDialogClose
    auth,        \* closure of waitForModalAuthResponse
    popup,       \* popup window and closure of waitForPopupAuthResponse
    posted,      \* messages posted into the hosted frame
    net,         \* requests issued to the server
    pipe,        \* locals of sendIntent / sendBatchIntent
    calls,       \* how often cleanup and each waiter's resolve were called
    returns,     \* how often the operation's promise was resolved
    result,      \* value the operation's promise resolved with
    hist,        \* what the environment did (history)
    lastEvt,     \* "foreign" after a message of another origin, else "task"
    prov,        \* the provider: request being served, chain, notifications
    batch        \* BatchQueueProvider: its state and its last render

vars == <<op, opts, storageKey, storage, pc, dialog, hs, waiterL, cw, auth,
          popup, posted, net, pipe, calls, returns, result, hist, lastEvt,
          prov, batch>>

NoDialog ==
    [open |-> FALSE, inDoc |-> FALSE, hostL |-> FALSE, keyL |-> FALSE,
     closeQueued |-> 0]

NoResult ==
    [success |-> FALSE, code |-> "unset", status |-> "unset", intentId |-> "",
     transactionHash |-> "none", results |-> <<>>, successCount |-> 0,
     failureCount |-> 0, username |-> "undefined", action |-> "undefined"]

Res(success, code, status, intentId, hash) ==
    [success |-> success, code |-> code, status |-> status,
     intentId |-> intentId, transactionHash |-> hash, results |-> <<>>,
     successCount |-> 0, failureCount |-> 0, username |-> "undefined",
     action |-> "undefined"]

NoPipe ==
    [requestBody |-> "none", prepareResponse |-> 0, served |-> 0,
     refreshing |-> 0, refreshes |-> 0, executeBody |-> 0, intentId |-> "",
     finalStatus |-> "unset", finalTxHash |-> "none", lastStatus |-> "unset",
     attempt |-> 0, isSuccessStatus |-> FALSE, hashPolls |-> 0,
     pendingError |-> "none", batchResults |-> <<>>]

\* the provider before any request: nothing being served, nothing emitted,
\* nothing returned or thrown
Pending == [state |-> "pending", kind |-> "none", value |-> <<>>]

Rejected == [state |-> "rejected", kind |-> "none", value |-> <<>>]

\* the request's promise resolved with a list of accounts or with one string
Resolved(kind, value) == [state |-> "resolved", kind |-> kind, value |-> value]

NoProv ==
    [method |-> "none", chainId |-> 0, signer |-> FALSE, waitForHash |-> "undefined",
     username |-> "undefined", emitted |-> <<>>, ret |-> Pending,
     signerCalls |-> <<>>, sent |-> <<>>]

NoHist ==
    [readyDelivered |-> FALSE, lastObserved |-> "none", userNotFound |-> FALSE,
     hashTimedOut |-> FALSE, executeHash |-> "none"]

\* BatchQueueProvider as mounted: useState([]) rendered, no setQueue waiting for
\* the next render, nothing persisted, no id generated, nothing returned
NoBatch ==
    [queue |-> <<>>, updates |-> <<>>, stored |-> <<>>, ids |-> 0,
     ret |-> [success |-> FALSE, targetChain |-> 0]]

\* no dialog, no listener, nothing posted, fetched or returned
InitSession ==
    /\ dialog = NoDialog
    /\ hs = [msgL |-> FALSE, closeL |-> FALSE, settled |-> FALSE]
    /\ waiterL = FALSE
    /\ cw = [msgL |-> FALSE, closeL |-> FALSE, promise |-> "none"]
    /\ auth = [dialogReady |-> FALSE]
    /\ popup = [window |-> "none", timer |-> FALSE, msgL |-> FALSE]
    /\ posted = [init |-> 0, statuses |-> <<>>, refreshComplete |-> 0,
                 refreshError |-> 0]
    /\ net = [prepare |-> 0, batchPrepare |-> 0, execute |-> 0, status |-> 0]
    /\ pipe = NoPipe
    /\ calls = [cleanup |-> 0, readyResolve |-> 0, resultResolve |-> 0,
                closeResolve |-> 0]
    /\ returns = 0
    /\ result = NoResult
    /\ hist = NoHist
    /\ lastEvt = "task"
    /\ batch = NoBatch

InitCommon ==
    /\ pc = "idle"
    /\ prov = NoProv
    /\ InitSession

\* the options the protocol runs are started with
SessionOptions ==
    {DefaultOptions, SignedOptions,
     [DefaultOptions EXCEPT !.waitForHash = TRUE]} \cup
    {[DefaultOptions EXCEPT !.closeOn = c] : c \in CloseOnValues}

\* the option sets under which the hosted UI asks for a quote refresh
RefreshOptions == {DefaultOptions, SignedOptions}

Init ==
    /\ op \in Ops
    /\ opts \in (IF op = "sendIntent" THEN SessionOptions ELSE {DefaultOptions})
    /\ storageKey \in (IF opts = DefaultOptions THEN StorageKeys
                       ELSE {DEFAULT_STORAGE_KEY})
    /\ storage = [k \in StorageKeys |-> IF k = storageKey THEN "user" ELSE "none"]
    /\ InitCommon

(***************************************************************************)
(* Dialog Host                                                             *)
(***************************************************************************)
\* createModalDialog: dialog appended and shown, resize/disconnect relay and
\* keydown listener registered
createModalDialog ==
    [open |-> TRUE, inDoc |-> TRUE, hostL |-> TRUE, keyL |-> TRUE,
     closeQueued |-> 0]

\* a cleanup whose close() flips the dialog instead of closing it
cleanupToggle(d) ==
    [d EXCEPT !.hostL = FALSE, !.keyL = FALSE, !.open = ~d.open,
              !.inDoc = ~d.inDoc]

\* cleanup: both listeners removed; dialog.close() does nothing on a dialog
\* that is not open, otherwise it closes it and queues the "close" event;
\* dialog.remove()
cleanup(d) ==
    [d EXCEPT !.hostL = FALSE, !.keyL = FALSE, !.open = FALSE, !.inDoc = FALSE,
              !.closeQueued = IF d.open THEN @ + 1 ELSE @]

\* iframe.contentWindow is null once the frame is out of the document
contentWindow(d) == d.inDoc

\* iframe.contentWindow?.postMessage({type: "PASSKEY_INIT", ...})
postInit(d, p) == IF contentWindow(d) THEN [p EXCEPT !.init = @ + 1] ELSE p

\* a sendTransactionStatus that posts nothing
sendTransactionStatusNever(d, p, status) == p

\* sendTransactionStatus
sendTransactionStatus(d, p, status) ==
    IF contentWindow(d) THEN [p EXCEPT !.statuses = Append(@, status)] ELSE p

\* a refresh-complete posted without looking for the frame's window
postRefreshCompleteAlways(d, p) == [p EXCEPT !.refreshComplete = @ + 1]

postRefreshComplete(d, p) ==
    IF contentWindow(d) THEN [p EXCEPT !.refreshComplete = @ + 1] ELSE p

postRefreshError(d, p) ==
    IF contentWindow(d) THEN [p EXCEPT !.refreshError = @ + 1] ELSE p

\* localStorage.removeItem("1auth-user")
removeStoredUser(st) == [st EXCEPT ![DEFAULT_STORAGE_KEY] = "none"]

\* what localStorage.getItem(storageKey) can hold: nothing, a complete
\* record, a JSON object without username or without address, one whose
\* username is the empty string, the JSON text null, or text that is not JSON
StoredItems == {"none", "user", "noUsername", "noAddress", "emptyUsername",
                "jsonNull", "unparsable"}

\* JSON.parse(raw) and the two optional-chained reads parsed?.username,
\* parsed?.address
JSONparse(raw) ==
    CASE raw = "user" ->
            [threw |-> FALSE, username |-> "alice", address |-> "0xaddress"]
      [] raw = "noUsername" ->
            [threw |-> FALSE, username |-> "undefined", address |-> "0xaddress"]
      [] raw = "noAddress" ->
            [threw |-> FALSE, username |-> "alice", address |-> "undefined"]
      [] raw = "emptyUsername" ->
            [threw |-> FALSE, username |-> "", address |-> "0xaddress"]
      [] raw = "jsonNull" ->
            [threw |-> FALSE, username |-> "undefined", address |-> "undefined"]
      [] OTHER ->
            [threw |-> TRUE, username |-> "undefined", address |-> "undefined"]

\* !value
Falsy(v) == v \in {"undefined", ""}

\* getStoredUser returning null
NullUser == [present |-> FALSE, username |-> "undefined", address |-> "undefined"]

\* a getStoredUser that tests the username only
getStoredUserNoAddress(st, key) ==
    LET raw == st[key]
        parsed == JSONparse(raw)
    IN  IF raw = "none" THEN NullUser
        ELSE IF parsed.threw THEN NullUser
        ELSE IF Falsy(parsed.username) THEN NullUser
        ELSE [present |-> TRUE, username |-> parsed.username,
              address |-> parsed.address]

\* provider.ts getStoredUser
getStoredUser(st, key) ==
    LET raw == st[key]
        parsed == JSONparse(raw)
    IN  IF raw = "none" THEN NullUser
        ELSE IF parsed.threw THEN NullUser
        ELSE IF Falsy(parsed.username) \/ Falsy(parsed.address) THEN NullUser
        ELSE [present |-> TRUE, username |-> parsed.username,
              address |-> parsed.address]

\* request({method: "eth_accounts"})
eth_accounts(st, key) ==
    LET stored == getStoredUser(st, key)
    IN  IF stored.present THEN <<stored.address>> ELSE <<>>

(***************************************************************************)
(* Which message listener of the operation is registered                   *)
(***************************************************************************)
ReadyL == hs.msgL
SigningL == waiterL /\ op \in SigningOps
RefreshL == waiterL /\ op = "sendIntent"
BatchL == waiterL /\ op = "sendBatchIntent"
ConnectL == waiterL /\ op = "connectWithModal"
AuthL == waiterL /\ op = "authWithModal"
AuthenticateL == waiterL /\ op = "authenticate"
CloseL == cw.msgL
PopupL == popup.msgL

progVars == <<pc, dialog, hs, waiterL, cw, auth, popup, posted, net, pipe,
              calls, returns, result>>

\* the operation's async function returns r
Return(r) == result' = r /\ pc' = "done" /\ returns' = returns + 1

Ignore == UNCHANGED progVars

\* a cancelled handshake reported as USER_REJECTED by every operation
cancelledResultRejected(o) == Res(FALSE, "USER_REJECTED", "n/a", "", "none")

\* result of an operation whose handshake was cancelled
cancelledResult(o) ==
    CASE o \in SigningOps -> Res(FALSE, "USER_REJECTED", "n/a", "", "none")
      [] o = "connectWithModal" ->
            [Res(FALSE, "USER_CANCELLED", "n/a", "", "none") EXCEPT
                !.action = "cancel"]
      [] o = "sendIntent" -> Res(FALSE, "USER_CANCELLED", "failed", "", "none")
      [] OTHER -> Res(FALSE, "none", "n/a", "", "none")

teardown == [msgL |-> FALSE, closeL |-> FALSE, settled |-> TRUE]

(***************************************************************************)
(* Ready Handshake: waitForDialogReady                                     *)
(***************************************************************************)
waitForDialogReady_handleMessage(m) ==
    /\ ReadyL
    /\ IF ~OriginOk(m.origin) THEN Ignore
       ELSE IF m.type = "PASSKEY_READY" THEN
            \* teardown(); post PASSKEY_INIT; resolve(true); the operation
            \* goes on to register its result waiter
            /\ hs' = teardown
            /\ posted' = postInit(dialog, posted)
            /\ calls' = [calls EXCEPT !.readyResolve = @ + 1]
            /\ waiterL' = TRUE
            /\ pc' = "waitResult"
            /\ UNCHANGED <<dialog, cw, auth, popup, net, pipe, result, returns>>
       ELSE IF m.type = "PASSKEY_CLOSE" THEN
            \* teardown(); cleanup(); resolve(false); the operation returns
            /\ hs' = teardown
            /\ dialog' = cleanup(dialog)
            /\ calls' = [calls EXCEPT !.readyResolve = @ + 1, !.cleanup = @ + 1]
            /\ Return(cancelledResult(op))
            /\ UNCHANGED <<waiterL, cw, auth, popup, posted, net, pipe>>
       ELSE Ignore

\* the dialog's "close" event while the handshake waits
waitForDialogReady_handleClose(d) ==
    /\ hs.closeL
    /\ hs' = teardown
    /\ calls' = [calls EXCEPT !.readyResolve = @ + 1]
    /\ Return(cancelledResult(op))
    /\ dialog' = d
    /\ UNCHANGED <<waiterL, cw, auth, popup, posted, net, pipe>>

(***************************************************************************)
(* Session Result Waiters                                                  *)
(***************************************************************************)
\* a waiter that does not look for an intent ID in a successful result
signingOutcomeLegacy(m) ==
    IF m.success /\ m.payload \in {"signature", "intentId"} THEN "signature"
    ELSE IF m.success THEN "SIGNING_FAILED"
    ELSE "DIALOG_ERROR"

\* what waitForSigningResponse / waitForSigningWithRefresh resolve with on a
\* PASSKEY_SIGNING_RESULT
signingOutcome(m) ==
    IF m.success /\ m.payload = "intentId" THEN "intentId"
    ELSE IF m.success /\ m.payload = "signature" THEN "signature"
    ELSE IF m.success THEN "SIGNING_FAILED"
    ELSE "DIALOG_ERROR"

\* waitForSigningResponse, with the rest of signMessage / signTypedData
\* (cleanup() after the waiter) or of signWithModal (returns the result)
waitForSigningResponse_handleMessage(m) ==
    /\ SigningL
    /\ IF ~OriginOk(m.origin) THEN Ignore
       ELSE IF m.type = "PASSKEY_SIGNING_RESULT" THEN
            /\ waiterL' = FALSE
            /\ dialog' = IF op = "signWithModal" THEN dialog ELSE cleanup(dialog)
            /\ calls' = [calls EXCEPT
                           !.resultResolve = @ + 1,
                           !.cleanup = IF op = "signWithModal" THEN @ ELSE @ + 1]
            /\ Return(IF signingOutcome(m) \in {"intentId", "signature"}
                         THEN Res(TRUE, "none", "n/a", "", "none")
                         ELSE Res(FALSE, signingOutcome(m), "n/a", "", "none"))
            /\ UNCHANGED <<hs, cw, auth, popup, posted, net, pipe>>
       ELSE IF m.type = "PASSKEY_CLOSE" THEN
            /\ waiterL' = FALSE
            /\ dialog' = IF op = "signWithModal" THEN cleanup(dialog)
                         ELSE cleanup(cleanup(dialog))
            /\ calls' = [calls EXCEPT
                           !.resultResolve = @ + 1,
                           !.cleanup = IF op = "signWithModal" THEN @ + 1 ELSE @ + 2]
            /\ Return(Res(FALSE, "USER_REJECTED", "n/a", "", "none"))
            /\ UNCHANGED <<hs, cw, auth, popup, posted, net, pipe>>
       ELSE Ignore

\* data.data?.username and data.data?.action of a result message
dataUsername(m) == IF m.payload = "username" THEN "alice" ELSE "undefined"

dataAction(m) == IF m.payload = "switch" THEN "switch" ELSE "undefined"

waitForConnectResponse_handleMessage(m) ==
    /\ ConnectL
    /\ IF ~OriginOk(m.origin) THEN Ignore
       ELSE IF m.type \in {"PASSKEY_CONNECT_RESULT", "PASSKEY_CLOSE"} THEN
            /\ waiterL' = FALSE
            /\ dialog' = cleanup(dialog)
            /\ calls' = [calls EXCEPT !.resultResolve = @ + 1, !.cleanup = @ + 1]
            /\ Return(IF m.type = "PASSKEY_CLOSE"
                         THEN [Res(FALSE, "USER_CANCELLED", "n/a", "", "none")
                                  EXCEPT !.action = "cancel"]
                         ELSE IF m.success
                         THEN [Res(TRUE, "none", "n/a", "", "none")
                                  EXCEPT !.username = dataUsername(m)]
                         ELSE [Res(FALSE, "DIALOG_ERROR", "n/a", "", "none")
                                  EXCEPT !.action = dataAction(m)])
            /\ UNCHANGED <<hs, cw, auth, popup, posted, net, pipe>>
       ELSE Ignore

waitForAuthenticateResponse_handleMessage(m) ==
    /\ AuthenticateL
    /\ IF ~OriginOk(m.origin) THEN Ignore
       ELSE IF m.type \in {"PASSKEY_AUTHENTICATE_RESULT", "PASSKEY_CLOSE"} THEN
            /\ waiterL' = FALSE
            /\ dialog' = cleanup(dialog)
            /\ calls' = [calls EXCEPT !.resultResolve = @ + 1, !.cleanup = @ + 1]
            /\ Return(IF m.type = "PASSKEY_CLOSE"
                         THEN Res(FALSE, "USER_CANCELLED", "n/a", "", "none")
                         ELSE IF m.success THEN Res(TRUE, "none", "n/a", "", "none")
                         ELSE Res(FALSE, "DIALOG_ERROR", "n/a", "", "none"))
            /\ UNCHANGED <<hs, cw, auth, popup, posted, net, pipe>>
       ELSE Ignore

\* waitForModalAuthResponse (authWithModal): own ready handling, retry in popup
waitForModalAuthResponse_handleMessage(m, blocked) ==
    /\ AuthL
    /\ IF ~OriginOk(m.origin) THEN Ignore
       ELSE IF m.type = "PASSKEY_READY" THEN
            /\ auth' = [auth EXCEPT !.dialogReady = TRUE]
            /\ posted' = postInit(dialog, posted)
            /\ UNCHANGED <<pc, dialog, hs, waiterL, cw, popup, net, pipe, calls,
                           returns, result>>
       ELSE IF ~auth.dialogReady /\ m.type = "PASSKEY_CLOSE" THEN Ignore
       ELSE IF m.type \in {"PASSKEY_LOGIN_RESULT", "PASSKEY_REGISTER_RESULT",
                           "PASSKEY_CLOSE"} THEN
            /\ waiterL' = FALSE
            /\ dialog' = cleanup(dialog)
            /\ calls' = [calls EXCEPT !.resultResolve = @ + 1, !.cleanup = @ + 1]
            /\ Return(IF m.type = "PASSKEY_CLOSE"
                      THEN Res(FALSE, "USER_CANCELLED", "n/a", "", "none")
                      ELSE IF m.success
                      THEN [Res(TRUE, "none", "n/a", "", "none")
                               EXCEPT !.username = dataUsername(m)]
                      ELSE Res(FALSE, "DIALOG_ERROR", "n/a", "", "none"))
            /\ UNCHANGED <<hs, cw, auth, popup, posted, net, pipe>>
       ELSE IF m.type = "PASSKEY_RETRY_POPUP" THEN
            \* listener removed, cleanup(), openPopup (null when blocked),
            \* waitForPopupAuthResponse: close poll timer and listener
            /\ waiterL' = FALSE
            /\ dialog' = cleanup(dialog)
            /\ calls' = [calls EXCEPT !.cleanup = @ + 1]
            /\ popup' = [window |-> IF blocked THEN "null" ELSE "open",
                         timer |-> TRUE, msgL |-> TRUE]
            /\ pc' = "waitPopup"
            /\ UNCHANGED <<hs, cw, auth, posted, net, pipe, returns, result>>
       ELSE Ignore

\* popup?.close()
closePopup(w) == IF w = "open" THEN "closed" ELSE w

waitForPopupAuthResponse_handleMessage(m) ==
    /\ PopupL
    /\ IF ~OriginOk(m.origin) THEN Ignore
       ELSE IF m.type \in {"PASSKEY_LOGIN_RESULT", "PASSKEY_REGISTER_RESULT",
                           "PASSKEY_CLOSE"} THEN
            /\ popup' = [window |-> closePopup(popup.window), timer |-> FALSE,
                         msgL |-> FALSE]
            /\ calls' = [calls EXCEPT !.resultResolve = @ + 1]
            /\ Return(IF m.type = "PASSKEY_CLOSE"
                      THEN Res(FALSE, "USER_CANCELLED", "n/a", "", "none")
                      ELSE IF m.success
                      THEN [Res(TRUE, "none", "n/a", "", "none")
                               EXCEPT !.username = dataUsername(m)]
                      ELSE Res(FALSE, "DIALOG_ERROR", "n/a", "", "none"))
            /\ UNCHANGED <<dialog, hs, waiterL, cw, auth, posted, net, pipe>>
       ELSE Ignore

\* the 500 ms interval of waitForPopupAuthResponse
waitForPopupAuthResponse_pollTimer ==
    /\ popup.timer
    /\ IF popup.window = "closed"
       THEN /\ popup' = [popup EXCEPT !.timer = FALSE, !.msgL = FALSE]
            /\ calls' = [calls EXCEPT !.resultResolve = @ + 1]
            /\ Return(Res(FALSE, "USER_CANCELLED", "n/a", "", "none"))
            /\ UNCHANGED <<dialog, hs, waiterL, cw, auth, posted, net, pipe>>
       ELSE Ignore

(***************************************************************************)
(* Intent Pipeline: sendIntent                                             *)
(***************************************************************************)
\* the validation at the head of sendIntent, without the targetChain test
sendIntentValidNoChain(o) ==
    LET merchantId == o.signed /\ (o.siMerchantId \/ o.siDeveloperId)
        username == (o.signed /\ o.siUsername) \/ o.username
        cs == IF o.signed /\ o.siCalls # "undefined" THEN o.siCalls ELSE o.calls
    IN  /\ ~(o.signed /\ ~merchantId)
        /\ ~(~username /\ ~(o.signed /\ o.siAccountAddress))
        /\ cs = "nonempty"

\* the validation at the head of sendIntent: TRUE when no INVALID_OPTIONS
\* return is taken ([] is truthy, so an empty signed calls list wins over
\* options.calls)
sendIntentValid(o) ==
    LET merchantId == o.signed /\ (o.siMerchantId \/ o.siDeveloperId)
        username == (o.signed /\ o.siUsername) \/ o.username
        targetChain == (o.signed /\ o.siTargetChain) \/ o.targetChain
        cs == IF o.signed /\ o.siCalls # "undefined" THEN o.siCalls ELSE o.calls
    IN  /\ ~(o.signed /\ ~merchantId)
        /\ ~(~username /\ ~(o.signed /\ o.siAccountAddress))
        /\ ~(~targetChain \/ cs # "nonempty")

\* options.closeOn || "preconfirmed"
closeOnOf(o) == IF o.closeOn = "undefined" THEN "preconfirmed" ELSE o.closeOn

\* a table in which "completed" also accepts "filled"
successStatusesLoose(closeOn) ==
    CASE closeOn = "claimed" -> {"claimed", "preconfirmed", "filled", "completed"}
      [] closeOn = "preconfirmed" -> {"preconfirmed", "filled", "completed"}
      [] closeOn = "filled" -> {"filled", "completed"}
      [] closeOn = "completed" -> {"filled", "completed"}
      [] OTHER -> {}

successStatuses(closeOn) ==
    CASE closeOn = "claimed" -> {"claimed", "preconfirmed", "filled", "completed"}
      [] closeOn = "preconfirmed" -> {"preconfirmed", "filled", "completed"}
      [] closeOn = "filled" -> {"filled", "completed"}
      [] closeOn = "completed" -> {"completed"}
      [] OTHER -> {}

registerCloseWaiter == [msgL |-> TRUE, closeL |-> TRUE, promise |-> "pending"]

\* a step 7 that posts the final status without the "confirmed" mapping
enterFinalRaw(p, pp) ==
    /\ posted' = sendTransactionStatus(dialog, p, pp.finalStatus)
    /\ pipe' = [pp EXCEPT !.isSuccessStatus =
                   pp.finalStatus \in successStatuses(closeOnOf(opts))]
    /\ cw' = registerCloseWaiter
    /\ pc' = "waitClose"
    /\ UNCHANGED net

\* step 7: final status to the dialog, then waitForDialogClose.
\* p, pp: posted and pipe as left by the earlier statements of this task
enterFinal(p, pp) ==
    LET ok == pp.finalStatus \in successStatuses(closeOnOf(opts))
    IN  /\ posted' = sendTransactionStatus(dialog, p,
                        IF ok THEN "confirmed" ELSE pp.finalStatus)
        /\ pipe' = [pp EXCEPT !.isSuccessStatus = ok]
        /\ cw' = registerCloseWaiter
        /\ pc' = "waitClose"
        /\ UNCHANGED net

\* a poll loop that tests attempt <= maxAttempts
pollLoopOneMore(p, pp) ==
    IF pp.attempt <= maxAttempts
    THEN /\ net' = [net EXCEPT !.status = @ + 1]
         /\ pc' = "pollFetch"
         /\ posted' = p
         /\ pipe' = pp
         /\ UNCHANGED cw
    ELSE enterFinal(p, pp)

\* head of the poll loop: attempt < maxAttempts
pollLoop(p, pp) ==
    IF pp.attempt < maxAttempts
    THEN /\ net' = [net EXCEPT !.status = @ + 1]
         /\ pc' = "pollFetch"
         /\ posted' = p
         /\ pipe' = pp
         /\ UNCHANGED cw
    ELSE enterFinal(p, pp)

\* step 6 on: finalStatus / finalTxHash set from the execute response
afterExecute(pp) ==
    IF pp.finalStatus = "pending"
    THEN pollLoop(sendTransactionStatus(dialog, posted, "pending"),
                  [pp EXCEPT !.lastStatus = "pending", !.attempt = 0])
    ELSE enterFinal(posted, pp)

\* waitForSigningWithRefresh, with what sendIntent does on its result
waitForSigningWithRefresh_handleMessage(m) ==
    /\ RefreshL
    /\ IF ~OriginOk(m.origin) THEN Ignore
       ELSE IF m.type = "PASSKEY_REFRESH_QUOTE" THEN
            \* onRefresh(): the prepare request is issued again
            /\ net' = [net EXCEPT !.prepare = @ + 1]
            /\ pipe' = [pipe EXCEPT !.refreshing = @ + 1, !.refreshes = @ + 1]
            /\ UNCHANGED <<pc, dialog, hs, waiterL, cw, auth, popup, posted,
                           calls, returns, result>>
       ELSE IF m.type = "PASSKEY_SIGNING_RESULT" THEN
            /\ waiterL' = FALSE
            /\ calls' = [calls EXCEPT !.resultResolve = @ + 1]
            /\ UNCHANGED <<dialog, hs, auth, popup>>
            /\ CASE signingOutcome(m) = "intentId" ->
                    \* the dialog executed the intent: status "pending"
                    /\ afterExecute([pipe EXCEPT !.intentId = "intent-dialog",
                                                 !.finalStatus = "pending",
                                                 !.finalTxHash = "none"])
                    /\ UNCHANGED <<returns, result>>
                 [] signingOutcome(m) = "signature" ->
                    \* legacy flow: POST /api/intent/execute
                    /\ net' = [net EXCEPT !.execute = @ + 1]
                    /\ pipe' = [pipe EXCEPT !.executeBody = pipe.prepareResponse]
                    /\ pc' = "execute"
                    /\ UNCHANGED <<cw, posted, returns, result>>
                 [] OTHER ->
                    /\ Return(Res(FALSE, signingOutcome(m), "failed", "", "none"))
                    /\ UNCHANGED <<cw, posted, net, pipe>>
       ELSE IF m.type = "PASSKEY_CLOSE" THEN
            /\ waiterL' = FALSE
            /\ dialog' = cleanup(dialog)
            /\ calls' = [calls EXCEPT !.resultResolve = @ + 1, !.cleanup = @ + 1]
            /\ Return(Res(FALSE, "USER_REJECTED", "failed", "", "none"))
            /\ UNCHANGED <<hs, cw, auth, popup, posted, net, pipe>>
       ELSE Ignore

(***************************************************************************)
(* Batch variant: sendBatchIntent                                          *)
(***************************************************************************)
\* one entry of message.data.batchResults: optional success flag and status
RawResults == [success : {"undefined", "true", "false"}, status : {"FAILED", "PENDING"}]

BatchRaw == UNION { [1..n -> RawResults] : n \in 0..MaxBatch }

\* r.success ?? r.status !== "FAILED"
itemSuccess(r) ==
    IF r.success = "undefined" THEN r.status # "FAILED" ELSE r.success = "true"

Count(seq) == Cardinality({i \in DOMAIN seq : seq[i]})

batchResult(results) ==
    [Res(Count(results) = Len(results), "none", "n/a", "", "none") EXCEPT
        !.results = results,
        !.successCount = Count(results),
        !.failureCount = Len(results) - Count(results)]

batchFailure == Res(FALSE, "none", "n/a", "", "none")

\* the handler sendBatchIntent registers after the handshake
sendBatchIntent_handleMessage(m, raw) ==
    /\ BatchL
    /\ IF ~OriginOk(m.origin) THEN Ignore
       ELSE IF m.type = "PASSKEY_REFRESH_QUOTE" THEN
            /\ net' = [net EXCEPT !.batchPrepare = @ + 1]
            /\ pipe' = [pipe EXCEPT !.refreshing = @ + 1, !.refreshes = @ + 1]
            /\ UNCHANGED <<pc, dialog, hs, waiterL, cw, auth, popup, posted,
                           calls, returns, result>>
       ELSE IF m.type = "PASSKEY_SIGNING_RESULT" THEN
            /\ waiterL' = FALSE
            /\ IF m.success /\ m.payload = "batchResults"
               THEN \* results mapped, then await waitForDialogClose
                    /\ pipe' = [pipe EXCEPT !.batchResults =
                                  [i \in DOMAIN raw |-> itemSuccess(raw[i])]]
                    /\ cw' = registerCloseWaiter
                    /\ pc' = "waitClose"
                    /\ UNCHANGED <<dialog, hs, auth, popup, posted, net, calls,
                                   returns, result>>
               ELSE /\ dialog' = cleanup(dialog)
                    /\ calls' = [calls EXCEPT !.resultResolve = @ + 1,
                                              !.cleanup = @ + 1]
                    /\ Return(batchFailure)
                    /\ UNCHANGED <<hs, cw, auth, popup, posted, net, pipe>>
       ELSE IF m.type = "PASSKEY_CLOSE" THEN
            /\ waiterL' = FALSE
            /\ dialog' = cleanup(dialog)
            /\ calls' = [calls EXCEPT !.resultResolve = @ + 1, !.cleanup = @ + 1]
            /\ Return(batchFailure)
            /\ UNCHANGED <<hs, cw, auth, popup, posted, net, pipe>>
       ELSE Ignore

(***************************************************************************)
(* waitForDialogClose and what the operation does once it resolved         *)
(***************************************************************************)
\* a hash wait that leaves the success of the polled status in the result
hashTimeoutKeepsSuccess ==
    Res(pipe.isSuccessStatus, "HASH_TIMEOUT", "failed", pipe.intentId,
        pipe.finalTxHash)

\* the HASH_TIMEOUT return of sendIntent
hashTimeoutResult ==
    Res(FALSE, "HASH_TIMEOUT", "failed", pipe.intentId, pipe.finalTxHash)

\* the statements after "await this.waitForDialogClose(...)"
afterDialogClose ==
    CASE pc = "waitCloseFailed" ->
            \* execute failed: the error is returned
            /\ Return(Res(FALSE, pipe.pendingError, "failed", "", "none"))
            /\ UNCHANGED <<net, pipe>>
      [] pc = "waitClose" /\ op = "sendBatchIntent" ->
            /\ Return(batchResult(pipe.batchResults))
            /\ UNCHANGED <<net, pipe>>
      [] pc = "waitClose" /\ op = "sendIntent" ->
            IF opts.waitForHash /\ pipe.finalTxHash = "none"
            THEN \* waitForTransactionHash: first status request
                 /\ net' = [net EXCEPT !.status = @ + 1]
                 /\ pipe' = [pipe EXCEPT !.hashPolls = 0]
                 /\ pc' = "hashFetch"
                 /\ UNCHANGED <<returns, result>>
            ELSE /\ Return(Res(pipe.isSuccessStatus, "none", pipe.finalStatus,
                               pipe.intentId, pipe.finalTxHash))
                 /\ UNCHANGED <<net, pipe>>
      [] OTHER -> UNCHANGED <<pc, returns, result, net, pipe>>

\* the promise of waitForDialogClose settles on the first resolve() only
resolveClose ==
    IF cw.promise = "pending" THEN afterDialogClose
    ELSE UNCHANGED <<pc, returns, result, net, pipe>>

waitForDialogClose_handleMessage(m) ==
    /\ CloseL
    /\ IF OriginOk(m.origin) /\ m.type = "PASSKEY_CLOSE"
       THEN \* only the message listener is removed; cleanup(); resolve()
            /\ cw' = [cw EXCEPT !.msgL = FALSE, !.promise = "resolved"]
            /\ dialog' = cleanup(dialog)
            /\ calls' = [calls EXCEPT !.closeResolve = @ + 1, !.cleanup = @ + 1]
            /\ resolveClose
            /\ UNCHANGED <<hs, waiterL, auth, popup, posted>>
       ELSE Ignore

\* the dialog's "close" event while waitForDialogClose is registered
waitForDialogClose_handleClose(d) ==
    /\ cw.closeL
    /\ cw' = [msgL |-> FALSE, closeL |-> FALSE, promise |-> "resolved"]
    /\ dialog' = cleanup(d)
    /\ calls' = [calls EXCEPT !.closeResolve = @ + 1, !.cleanup = @ + 1]
    /\ resolveClose
    /\ UNCHANGED <<hs, waiterL, auth, popup, posted>>

(***************************************************************************)
(* Host listener of createModalDialog: resize relay and disconnect         *)
(***************************************************************************)
createModalDialog_handleMessage(m) ==
    \* PASSKEY_RESIZE only restyles the frame, which is not part of the state
    IF dialog.hostL /\ OriginOk(m.origin) /\ m.type = "PASSKEY_DISCONNECT"
    THEN /\ storage' = removeStoredUser(storage)
         /\ UNCHANGED dialog
    ELSE UNCHANGED <<dialog, storage>>

(***************************************************************************)
(* Tasks of the event loop                                                 *)
(***************************************************************************)
\* the operation is called: the synchronous head of its async function
Call ==
    /\ pc = "idle"
    /\ UNCHANGED prov
    /\ lastEvt' = "task"
    /\ UNCHANGED batch
    /\ UNCHANGED <<op, opts, storageKey, storage, cw, popup, posted, pipe,
                   calls, hist, auth>>
    /\ CASE op \in SigningOps \cup {"connectWithModal"} ->
            /\ dialog' = createModalDialog
            /\ hs' = [msgL |-> TRUE, closeL |-> TRUE, settled |-> FALSE]
            /\ pc' = "waitReady"
            /\ UNCHANGED <<waiterL, net, returns, result>>
         [] op \in {"authWithModal", "authenticate"} ->
            /\ dialog' = createModalDialog
            /\ waiterL' = TRUE
            /\ pc' = "waitResult"
            /\ UNCHANGED <<hs, net, returns, result>>
         [] op = "sendIntent" ->
            IF sendIntentValid(opts)
            THEN /\ net' = [net EXCEPT !.prepare = @ + 1]
                 /\ pc' = "prepare"
                 /\ UNCHANGED <<dialog, hs, waiterL, returns, result>>
            ELSE /\ Return(Res(FALSE, "INVALID_OPTIONS", "failed", "", "none"))
                 /\ UNCHANGED <<dialog, hs, waiterL, net>>
         [] op = "sendBatchIntent" ->
            IF opts.username /\ opts.intents
            THEN /\ net' = [net EXCEPT !.batchPrepare = @ + 1]
                 /\ pc' = "prepare"
                 /\ UNCHANGED <<dialog, hs, waiterL, returns, result>>
            ELSE /\ Return(batchFailure)
                 /\ UNCHANGED <<dialog, hs, waiterL, net>>

PrepareOutcomes == {"ok", "userNotFound", "httpError", "networkError"}

\* the response of POST /api/intent/prepare or /api/intent/batch-prepare
PrepareResponse(outcome) ==
    /\ pc = "prepare"
    /\ UNCHANGED prov
    /\ lastEvt' = "task"
    /\ UNCHANGED batch
    /\ hist' = [hist EXCEPT !.userNotFound = @ \/ outcome = "userNotFound"]
    /\ UNCHANGED <<op, opts, storageKey, waiterL, cw, auth, popup, posted, net,
                   calls>>
    /\ IF outcome = "ok"
       THEN /\ pipe' = [pipe EXCEPT !.prepareResponse = 1, !.served = 1,
                           !.requestBody = IF opts.signed THEN "signed" ELSE "direct"]
            /\ dialog' = createModalDialog
            /\ hs' = [msgL |-> TRUE, closeL |-> TRUE, settled |-> FALSE]
            /\ pc' = "waitReady"
            /\ UNCHANGED <<storage, returns, result>>
       ELSE /\ storage' = IF outcome = "userNotFound"
                          THEN removeStoredUser(storage) ELSE storage
            /\ Return(IF op = "sendBatchIntent" THEN batchFailure
                      ELSE Res(FALSE,
                               CASE outcome = "userNotFound" -> "USER_NOT_FOUND"
                                 [] outcome = "httpError" -> "PREPARE_FAILED"
                                 [] OTHER -> "NETWORK_ERROR",
                               "failed", "", "none"))
            /\ UNCHANGED <<pipe, dialog, hs>>

\* a refresh whose data is posted to the dialog but not kept for execute
RefreshResponseStale(ok) ==
    /\ pipe.refreshing > 0
    /\ UNCHANGED prov
    /\ lastEvt' = "task"
    /\ UNCHANGED batch
    /\ pipe' = IF ok
               THEN [pipe EXCEPT !.refreshing = @ - 1, !.served = @ + 1]
               ELSE [pipe EXCEPT !.refreshing = @ - 1]
    /\ posted' = IF ok THEN postRefreshComplete(dialog, posted)
                 ELSE postRefreshError(dialog, posted)
    /\ UNCHANGED <<op, opts, storageKey, storage, pc, dialog, hs, waiterL, cw,
                   auth, popup, net, calls, returns, result, hist>>

\* a refresh whose failure is answered with nothing
RefreshResponseSilent(ok) ==
    /\ pipe.refreshing > 0
    /\ UNCHANGED prov
    /\ lastEvt' = "task"
    /\ UNCHANGED batch
    /\ pipe' = IF ok
               THEN [pipe EXCEPT !.refreshing = @ - 1, !.served = @ + 1,
                                 !.prepareResponse = pipe.served + 1]
               ELSE [pipe EXCEPT !.refreshing = @ - 1]
    /\ posted' = IF ok THEN postRefreshComplete(dialog, posted) ELSE posted
    /\ UNCHANGED <<op, opts, storageKey, storage, pc, dialog, hs, waiterL, cw,
                   auth, popup, net, calls, returns, result, hist>>

\* the response of the prepare request a quote refresh issued
RefreshResponse(ok) ==
    /\ pipe.refreshing > 0
    /\ UNCHANGED prov
    /\ lastEvt' = "task"
    /\ UNCHANGED batch
    /\ pipe' = IF ok
               THEN [pipe EXCEPT !.refreshing = @ - 1, !.served = @ + 1,
                                 !.prepareResponse = pipe.served + 1]
               ELSE [pipe EXCEPT !.refreshing = @ - 1]
    /\ posted' = IF ok THEN postRefreshComplete(dialog, posted)
                 ELSE postRefreshError(dialog, posted)
    /\ UNCHANGED <<op, opts, storageKey, storage, pc, dialog, hs, waiterL, cw,
                   auth, popup, net, calls, returns, result, hist>>

TxHashes == {"none", "0xhash"}

\* the (status, transactionHash) pairs a status or execute response carries
StatusReplies ==
    [status : Statuses, hash : {"none"}] \cup
    [status : {"pending", "filled", "completed", "failed"}, hash : {"0xhash"}]

\* the response of POST /api/intent/execute
ExecuteResponse(ok, status, hash) ==
    /\ pc = "execute"
    /\ UNCHANGED prov
    /\ lastEvt' = "task"
    /\ UNCHANGED batch
    /\ UNCHANGED <<op, opts, storageKey, storage, dialog, hs, waiterL, auth,
                   popup, calls, returns, result>>
    /\ IF ok \in {"httpError", "networkError"}
       THEN \* "failed" is sent to the dialog, then waitForDialogClose
            /\ posted' = sendTransactionStatus(dialog, posted, "failed")
            /\ cw' = registerCloseWaiter
            /\ pipe' = [pipe EXCEPT !.pendingError =
                          IF ok = "httpError" THEN "EXECUTE_FAILED"
                          ELSE "NETWORK_ERROR"]
            /\ pc' = "waitCloseFailed"
            /\ UNCHANGED <<net, hist>>
       ELSE /\ hist' = [hist EXCEPT !.lastObserved = status,
                                    !.executeHash = hash]
            /\ afterExecute([pipe EXCEPT !.intentId = "intent-1",
                                         !.finalStatus = status,
                                         !.finalTxHash = hash])

\* a poll loop that notifies the dialog of every status it reads
StatusResponseAlwaysNotify(ok, status, hash) ==
    /\ pc = "pollFetch"
    /\ UNCHANGED prov
    /\ lastEvt' = "task"
    /\ UNCHANGED batch
    /\ UNCHANGED <<op, opts, storageKey, storage, dialog, hs, waiterL, auth,
                   popup, calls, returns, result>>
    /\ IF ok
       THEN LET pp == [pipe EXCEPT !.finalStatus = status, !.finalTxHash = hash,
                                   !.lastStatus = status]
                p == sendTransactionStatus(dialog, posted, status)
            IN  /\ hist' = [hist EXCEPT !.lastObserved = status]
                /\ IF status \in {"failed", "expired"}
                      \/ status \in successStatuses(closeOnOf(opts))
                   THEN enterFinal(p, pp)
                   ELSE /\ pc' = "pollSleep"
                        /\ posted' = p
                        /\ pipe' = pp
                        /\ UNCHANGED <<cw, net>>
       ELSE /\ pc' = "pollSleep"
            /\ UNCHANGED <<posted, pipe, cw, net, hist>>

\* the response of GET /api/intent/status/{id} inside the poll loop
StatusResponse(ok, status, hash) ==
    /\ pc = "pollFetch"
    /\ UNCHANGED prov
    /\ lastEvt' = "task"
    /\ UNCHANGED batch
    /\ UNCHANGED <<op, opts, storageKey, storage, dialog, hs, waiterL, auth,
                   popup, calls, returns, result>>
    /\ IF ok
       THEN LET pp == [pipe EXCEPT !.finalStatus = status, !.finalTxHash = hash,
                                   !.lastStatus = status]
                p == IF status # pipe.lastStatus
                     THEN sendTransactionStatus(dialog, posted, status)
                     ELSE posted
            IN  /\ hist' = [hist EXCEPT !.lastObserved = status]
                /\ IF status \in {"failed", "expired"}
                      \/ status \in successStatuses(closeOnOf(opts))
                   THEN enterFinal(p, pp)
                   ELSE /\ pc' = "pollSleep"
                        /\ posted' = p
                        /\ pipe' = pp
                        /\ UNCHANGED <<cw, net>>
       ELSE /\ pc' = "pollSleep"
            /\ UNCHANGED <<posted, pipe, cw, net, hist>>

\* the pollIntervalMs timer: attempt++ and the loop test
PollTimer ==
    /\ pc = "pollSleep"
    /\ UNCHANGED prov
    /\ lastEvt' = "task"
    /\ UNCHANGED batch
    /\ pollLoop(posted, [pipe EXCEPT !.attempt = @ + 1])
    /\ UNCHANGED <<op, opts, storageKey, storage, dialog, hs, waiterL, auth,
                   popup, calls, returns, result, hist>>

\* waitForTransactionHash giving up on the first response that is not OK
HashResponseFailFast(ok, status, hash) ==
    /\ pc = "hashFetch"
    /\ UNCHANGED prov
    /\ lastEvt' = "task"
    /\ UNCHANGED batch
    /\ UNCHANGED <<op, opts, storageKey, storage, dialog, hs, waiterL, cw, auth,
                   popup, posted, net, calls, hist>>
    /\ IF ok /\ hash # "none"
       THEN /\ Return(Res(pipe.isSuccessStatus, "none", "completed",
                          pipe.intentId, hash))
            /\ pipe' = [pipe EXCEPT !.finalTxHash = hash,
                                    !.finalStatus = "completed"]
       ELSE IF ~ok \/ status \in {"failed", "expired"}
       THEN /\ Return(hashTimeoutResult)
            /\ pipe' = [pipe EXCEPT !.finalStatus = "failed"]
       ELSE /\ pc' = "hashSleep"
            /\ UNCHANGED <<pipe, returns, result>>

\* waitForTransactionHash: a status response
HashResponse(ok, status, hash) ==
    /\ pc = "hashFetch"
    /\ UNCHANGED prov
    /\ lastEvt' = "task"
    /\ UNCHANGED batch
    /\ UNCHANGED <<op, opts, storageKey, storage, dialog, hs, waiterL, cw, auth,
                   popup, posted, net, calls, hist>>
    /\ IF ok /\ hash # "none"
       THEN /\ Return(Res(pipe.isSuccessStatus, "none", "completed",
                          pipe.intentId, hash))
            /\ pipe' = [pipe EXCEPT !.finalTxHash = hash,
                                    !.finalStatus = "completed"]
       ELSE IF ok /\ status \in {"failed", "expired"}
       THEN /\ Return(hashTimeoutResult)
            /\ pipe' = [pipe EXCEPT !.finalStatus = "failed"]
       ELSE /\ pc' = "hashSleep"
            /\ UNCHANGED <<pipe, returns, result>>

\* waitForTransactionHash: the interval timer, then Date.now() < deadline
HashTimer(expired) ==
    /\ pc = "hashSleep"
    /\ UNCHANGED prov
    /\ lastEvt' = "task"
    /\ UNCHANGED batch
    /\ expired \/ pipe.hashPolls < MaxHashPolls
    /\ UNCHANGED <<op, opts, storageKey, storage, dialog, hs, waiterL, cw, auth,
                   popup, posted, calls>>
    /\ IF expired
       THEN /\ Return(hashTimeoutResult)
            /\ pipe' = [pipe EXCEPT !.finalStatus = "failed"]
            /\ hist' = [hist EXCEPT !.hashTimedOut = TRUE]
            /\ UNCHANGED net
       ELSE /\ net' = [net EXCEPT !.status = @ + 1]
            /\ pipe' = [pipe EXCEPT !.hashPolls = @ + 1]
            /\ pc' = "hashFetch"
            /\ UNCHANGED <<returns, result, hist>>

\* a message event on the window: every registered listener is called
WindowMessage(m) ==
    /\ dialog.hostL \/ ReadyL \/ waiterL \/ CloseL \/ PopupL
    /\ (m.type = "PASSKEY_READY" /\ m.origin = getDialogOrigin /\ AuthL)
           => posted.init < MaxInits
    /\ (m.type = "PASSKEY_REFRESH_QUOTE" /\ m.origin = getDialogOrigin)
           => pipe.refreshes < MaxRefresh /\ opts \in RefreshOptions
                 /\ storageKey = DEFAULT_STORAGE_KEY
    /\ UNCHANGED prov
    /\ lastEvt' = IF m.origin = getDialogOrigin THEN "task" ELSE "foreign"
    /\ UNCHANGED batch
    /\ hist' = [hist EXCEPT
          !.readyDelivered = @ \/ (m.type = "PASSKEY_READY" /\ ReadyL
                                   /\ m.origin = getDialogOrigin)]
    /\ UNCHANGED <<op, opts, storageKey>>
    /\ \/ /\ m.type \in {"PASSKEY_RESIZE", "PASSKEY_DISCONNECT"}
          /\ createModalDialog_handleMessage(m)
          /\ UNCHANGED <<pc, hs, waiterL, cw, auth, popup, posted, net, pipe,
                         calls, returns, result>>
       \/ /\ m.type \notin {"PASSKEY_RESIZE", "PASSKEY_DISCONNECT"}
          /\ UNCHANGED storage
          /\ \/ waitForDialogReady_handleMessage(m)
             \/ waitForSigningResponse_handleMessage(m)
             \/ waitForSigningWithRefresh_handleMessage(m)
             \/ \E raw \in (IF m.payload = "batchResults" /\ m.success
                               /\ m.origin = getDialogOrigin
                            THEN BatchRaw ELSE {<<>>}) :
                    sendBatchIntent_handleMessage(m, raw)
             \/ waitForConnectResponse_handleMessage(m)
             \/ \E blocked \in (IF m.type = "PASSKEY_RETRY_POPUP"
                                   /\ m.origin = getDialogOrigin
                                THEN BOOLEAN ELSE {FALSE}) :
                    waitForModalAuthResponse_handleMessage(m, blocked)
             \/ waitForAuthenticateResponse_handleMessage(m)
             \/ waitForDialogClose_handleMessage(m)
             \/ waitForPopupAuthResponse_handleMessage(m)
             \/ /\ ~(ReadyL \/ waiterL \/ CloseL \/ PopupL)
                /\ Ignore

\* the queued "close" event of the dialog is dispatched
DialogCloseEvent ==
    /\ dialog.closeQueued > 0
    /\ UNCHANGED prov
    /\ lastEvt' = "task"
    /\ UNCHANGED batch
    /\ UNCHANGED <<op, opts, storageKey, storage, hist>>
    /\ LET d == [dialog EXCEPT !.closeQueued = @ - 1]
       IN  \/ waitForDialogReady_handleClose(d)
           \/ waitForDialogClose_handleClose(d)
           \/ /\ ~hs.closeL /\ ~cw.closeL
              /\ dialog' = d
              /\ UNCHANGED <<pc, hs, waiterL, cw, auth, popup, posted, net, pipe,
                             calls, returns, result>>

\* the user closes the Session from the host page: handleEscape / backdrop click
UserClose(how) ==
    /\ IF how = "escape" THEN dialog.keyL ELSE dialog.inDoc /\ dialog.open
    /\ UNCHANGED prov
    /\ lastEvt' = "task"
    /\ UNCHANGED batch
    /\ dialog' = cleanup(dialog)
    /\ calls' = [calls EXCEPT !.cleanup = @ + 1]
    /\ UNCHANGED <<op, opts, storageKey, storage, pc, hs, waiterL, cw, auth,
                   popup, posted, net, pipe, returns, result, hist>>

\* the user closes the popup window
PopupClosed ==
    /\ popup.window = "open"
    /\ UNCHANGED prov
    /\ lastEvt' = "task"
    /\ UNCHANGED batch
    /\ popup' = [popup EXCEPT !.window = "closed"]
    /\ UNCHANGED <<op, opts, storageKey, storage, pc, dialog, hs, waiterL, cw,
                   auth, posted, net, pipe, calls, returns, result, hist>>

PopupPollTimer ==
    /\ waitForPopupAuthResponse_pollTimer
    /\ popup.window = "closed"
    /\ UNCHANGED prov
    /\ lastEvt' = "task"
    /\ UNCHANGED batch
    /\ UNCHANGED <<op, opts, storageKey, storage, hist>>

Next ==
    \/ Call
    \/ \E o \in PrepareOutcomes : PrepareResponse(o)
    \/ \E ok \in BOOLEAN : RefreshResponse(ok)
    \/ \E ok \in {"ok", "httpError", "networkError"}, r \in StatusReplies :
          ExecuteResponse(ok, r.status, r.hash)
    \/ \E ok \in BOOLEAN, r \in StatusReplies : StatusResponse(ok, r.status, r.hash)
    \/ PollTimer
    \/ \E ok \in BOOLEAN, r \in StatusReplies : HashResponse(ok, r.status, r.hash)
    \/ \E expired \in BOOLEAN : HashTimer(expired)
    \/ \E m \in Messages : WindowMessage(m)
    \/ DialogCloseEvent
    \/ \E how \in {"escape", "backdrop"} : UserClose(how)
    \/ PopupClosed
    \/ PopupPollTimer

Spec == Init /\ [][Next]_vars

\* every task the browser or the network has pending is eventually run; the
\* user and the hosted UI are free never to act again
FairSpec ==
    /\ Spec
    /\ WF_vars(Call)
    /\ WF_vars(DialogCloseEvent)
    /\ WF_vars(PollTimer)
    /\ WF_vars(PopupPollTimer)
    /\ WF_vars(\E expired \in BOOLEAN : HashTimer(expired))
    /\ WF_vars(\E o \in PrepareOutcomes : PrepareResponse(o))
    /\ WF_vars(\E ok \in BOOLEAN : RefreshResponse(ok))
    /\ WF_vars(\E ok \in {"ok", "httpError", "networkError"}, r \in StatusReplies :
                  ExecuteResponse(ok, r.status, r.hash))
    /\ WF_vars(\E ok \in BOOLEAN, r \in StatusReplies :
                  StatusResponse(ok, r.status, r.hash))
    /\ WF_vars(\E ok \in BOOLEAN, r \in StatusReplies :
                  HashResponse(ok, r.status, r.hash))

(***************************************************************************)
(* sendIntent alone, with a closeOn threshold: the Intent Pipeline without *)
(* quote refreshes and without the wait for a hash                         *)
(***************************************************************************)
PipelineOptions ==
    {[DefaultOptions EXCEPT !.closeOn = c] : c \in CloseOnValues \ {"undefined"}}

InitIntent ==
    /\ op = "sendIntent"
    /\ opts \in PipelineOptions
    /\ storageKey = DEFAULT_STORAGE_KEY
    /\ storage = [k \in StorageKeys |-> IF k = storageKey THEN "user" ELSE "none"]
    /\ InitCommon

NextIntent ==
    \/ Call
    \/ \E o \in PrepareOutcomes : PrepareResponse(o)
    \/ \E ok \in {"ok", "httpError", "networkError"}, r \in StatusReplies :
          ExecuteResponse(ok, r.status, r.hash)
    \/ \E ok \in BOOLEAN, r \in StatusReplies : StatusResponse(ok, r.status, r.hash)
    \/ PollTimer
    \/ \E m \in Messages : WindowMessage(m)
    \/ DialogCloseEvent
    \/ \E how \in {"escape", "backdrop"} : UserClose(how)

SpecIntent == InitIntent /\ [][NextIntent]_vars

\* every fetch is answered, every timer fires, and a queued close event is
\* dispatched
FairIntent ==
    /\ SpecIntent
    /\ WF_vars(Call)
    /\ WF_vars(DialogCloseEvent)
    /\ WF_vars(PollTimer)
    /\ WF_vars(\E o \in PrepareOutcomes : PrepareResponse(o))
    /\ WF_vars(\E ok \in {"ok", "httpError", "networkError"}, r \in StatusReplies :
                  ExecuteResponse(ok, r.status, r.hash))
    /\ WF_vars(\E ok \in BOOLEAN, r \in StatusReplies :
                  StatusResponse(ok, r.status, r.hash))

(***************************************************************************)
(* sendIntent called once with every shape of options                      *)
(***************************************************************************)
InitValidate ==
    /\ op = "sendIntent"
    /\ opts \in AllOptions
    /\ storageKey = DEFAULT_STORAGE_KEY
    /\ storage = [k \in StorageKeys |-> IF k = storageKey THEN "user" ELSE "none"]
    /\ InitCommon

NextValidate == Call

SpecValidate == InitValidate /\ [][NextValidate]_vars

(***************************************************************************)
(* Provider: the Stored User decides between the client call and connect   *)
(***************************************************************************)
\* the provider is created over any content of localStorage and has not been
\* asked anything yet
InitProvider ==
    /\ op = "none"
    /\ opts = DefaultOptions
    /\ storageKey \in StorageKeys
    /\ storage \in [StorageKeys -> StoredItems]
    /\ pc = "provider"
    /\ prov = NoProv
    /\ InitSession

\* request methods: eth_accounts, one that goes through connect() alone and
\* three that go through ensureUser()
ProviderMethods == {"eth_accounts", "eth_requestAccounts", "wallet_connect",
                    "personal_sign", "eth_signTypedData_v4",
                    "eth_sendTransaction"}

\* the methods that are connect() and nothing else
ConnectMethods == {"eth_requestAccounts", "wallet_connect"}

\* the client operation a method runs once it has a user
clientOp(method) ==
    CASE method = "personal_sign" -> "signMessage"
      [] method = "eth_signTypedData_v4" -> "signTypedData"
      [] method = "eth_sendTransaction" -> "sendIntent"

\* request({method}) up to the client operation it starts: eth_accounts answers
\* from the Stored User; connect() answers from it or starts
\* client.connectWithModal(); ensureUser() uses it or goes through connect()
request(method) ==
    /\ pc = "provider"
    /\ lastEvt' = "task"
    /\ UNCHANGED batch
    /\ prov' = [prov EXCEPT !.method = method]
    /\ UNCHANGED <<opts, storageKey, storage, dialog, hs, waiterL, cw, auth,
                   popup, posted, net, pipe, calls, hist>>
    /\ LET stored == getStoredUser(storage, storageKey)
       IN  IF method = "eth_accounts"
           THEN /\ Return([accounts |-> eth_accounts(storage, storageKey)])
                /\ UNCHANGED op
           ELSE IF ~stored.present
           THEN /\ op' = "connectWithModal"
                /\ pc' = "idle"
                /\ UNCHANGED <<returns, result>>
           ELSE IF method \in ConnectMethods
           THEN /\ Return([accounts |-> <<stored.address>>])
                /\ UNCHANGED op
           ELSE /\ op' = clientOp(method)
                /\ pc' = "idle"
                /\ UNCHANGED <<returns, result>>

NextProvider ==
    \/ \E method \in ProviderMethods : request(method)
    \/ Call

SpecProvider == InitProvider /\ [][NextProvider]_vars

(***************************************************************************)
(* Provider: connect() past the dialogs                                    *)
(***************************************************************************)
MaxSwitch == 1

\* the chains the provider is created on or switched to
ChainIds == {10, 8453}

HexDigit(d) == SubSeq("0123456789abcdef", d + 1, d + 1)

\* the digits of viem's numberToHex
RECURSIVE HexDigits(_)
HexDigits(n) ==
    IF n < 16 THEN HexDigit(n) ELSE HexDigits(n \div 16) \o HexDigit(n % 16)

\* viem numberToHex(value)
numberToHex(n) == "0x" \o HexDigits(n)

\* JSON.stringify({username, address}): a property that is undefined is left
\* out of the text
JSONstringify(username, address) ==
    IF username = "undefined" /\ address = "undefined" THEN "unparsable"
    ELSE IF username = "undefined" THEN "noUsername"
    ELSE IF address = "undefined" THEN "noAddress"
    ELSE "user"

\* setStoredUser
setStoredUser(st, key, username, address) ==
    [st EXCEPT ![key] = JSONstringify(username, address)]

\* emit(event, args): the notification as a listener sees it, with the
\* accounts the provider would report at that moment
emit(emitted, event, args, st, key) ==
    Append(emitted, [event |-> event, args |-> args,
                     accounts |-> eth_accounts(st, key)])

\* a new client call starts a new Session: fresh dialog and closures
newSession ==
    /\ dialog' = NoDialog
    /\ hs' = [msgL |-> FALSE, closeL |-> FALSE, settled |-> FALSE]
    /\ waiterL' = FALSE
    /\ cw' = [msgL |-> FALSE, closeL |-> FALSE, promise |-> "none"]
    /\ auth' = [dialogReady |-> FALSE]
    /\ popup' = [window |-> "none", timer |-> FALSE, msgL |-> FALSE]
    /\ posted' = [init |-> 0, statuses |-> <<>>, refreshComplete |-> 0,
                  refreshError |-> 0]
    /\ calls' = [cleanup |-> 0, readyResolve |-> 0, resultResolve |-> 0,
                 closeResolve |-> 0]

\* the request's promise rejects
throw == prov' = [prov EXCEPT !.ret = Rejected] /\ pc' = "providerDone"

\* connect() after `await client.connectWithModal()`: a username goes to the
\* address lookup, action "switch" opens the auth modal, anything else throws
connect_afterConnectModal ==
    /\ pc = "done" /\ op = "connectWithModal" /\ prov.method \in ConnectMethods
    /\ lastEvt' = "task"
    /\ UNCHANGED batch
    /\ UNCHANGED <<opts, storageKey, storage, pipe, returns, result, hist>>
    /\ IF result.success /\ ~Falsy(result.username)
       THEN /\ prov' = [prov EXCEPT !.username = result.username]
            /\ pc' = "lookup"
            /\ UNCHANGED <<op, dialog, hs, waiterL, cw, auth, popup, posted,
                           calls, net>>
       ELSE IF result.action = "switch"
       THEN /\ op' = "authWithModal"
            /\ pc' = "idle"
            /\ newSession
            /\ UNCHANGED <<prov, net>>
       ELSE /\ throw
            /\ UNCHANGED <<op, dialog, hs, waiterL, cw, auth, popup, posted,
                           calls, net>>

\* connect() after `await client.authWithModal()`
connect_afterAuthModal ==
    /\ pc = "done" /\ op = "authWithModal" /\ prov.method \in ConnectMethods
    /\ lastEvt' = "task"
    /\ UNCHANGED batch
    /\ UNCHANGED <<op, opts, storageKey, storage, dialog, hs, waiterL, cw, auth,
                   popup, posted, net, pipe, calls, returns, result, hist>>
    /\ IF ~result.success \/ Falsy(result.username)
       THEN throw
       ELSE /\ prov' = [prov EXCEPT !.username = result.username]
            /\ pc' = "lookup"

\* what GET /api/users/:username/account answers with
Addresses == {"0xaddress", "undefined"}

\* a connect() that notifies its listeners before it stores the record
AccountResponseEmitFirst(ok, address) ==
    /\ pc = "lookup"
    /\ lastEvt' = "task"
    /\ UNCHANGED batch
    /\ UNCHANGED <<op, opts, storageKey, dialog, hs, waiterL, cw, auth, popup,
                   posted, net, pipe, calls, returns, result, hist>>
    /\ IF ~ok
       THEN throw /\ UNCHANGED storage
       ELSE LET st == setStoredUser(storage, storageKey, prov.username, address)
                e1 == emit(prov.emitted, "accountsChanged", <<address>>,
                           storage, storageKey)
                e2 == emit(e1, "connect", numberToHex(prov.chainId), storage,
                           storageKey)
            IN  /\ storage' = st
                /\ prov' = [prov EXCEPT !.emitted = e2,
                                        !.ret = Resolved("accounts", <<address>>)]
                /\ pc' = "providerDone"

\* connect() after resolveAccountAddress: record stored, accountsChanged and
\* connect emitted, [address] returned; a failed lookup throws
AccountResponse(ok, address) ==
    /\ pc = "lookup"
    /\ lastEvt' = "task"
    /\ UNCHANGED batch
    /\ UNCHANGED <<op, opts, storageKey, dialog, hs, waiterL, cw, auth, popup,
                   posted, net, pipe, calls, returns, result, hist>>
    /\ IF ~ok
       THEN throw /\ UNCHANGED storage
       ELSE LET st == setStoredUser(storage, storageKey, prov.username, address)
                e1 == emit(prov.emitted, "accountsChanged", <<address>>, st,
                           storageKey)
                e2 == emit(e1, "connect", numberToHex(prov.chainId), st,
                           storageKey)
            IN  /\ storage' = st
                /\ prov' = [prov EXCEPT !.emitted = e2,
                                        !.ret = Resolved("accounts", <<address>>)]
                /\ pc' = "providerDone"

\* the number of chainChanged notifications so far
Switches(emitted) ==
    Cardinality({i \in DOMAIN emitted : emitted[i].event = "chainChanged"})

\* request({method: "wallet_switchEthereumChain"}) with a valid chain id
wallet_switchEthereumChain(next) ==
    /\ Switches(prov.emitted) < MaxSwitch
    /\ lastEvt' = "task"
    /\ UNCHANGED batch
    /\ prov' = [prov EXCEPT
          !.chainId = next,
          !.emitted = emit(@, "chainChanged", numberToHex(next), storage,
                           storageKey)]
    /\ UNCHANGED <<op, opts, storageKey, storage, pc, dialog, hs, waiterL, cw,
                   auth, popup, posted, net, pipe, calls, returns, result, hist>>

\* a provider without a usable Stored User, asked to connect
InitConnect ==
    /\ op = "none"
    /\ opts = DefaultOptions
    /\ storageKey \in StorageKeys
    /\ storage \in {st \in [StorageKeys -> {"none", "noAddress"}] :
                      \A k \in StorageKeys : k # storageKey => st[k] = "none"}
    /\ pc = "provider"
    /\ prov \in {[NoProv EXCEPT !.chainId = c] : c \in ChainIds}
    /\ InitSession

NextConnect ==
    \/ \E method \in ConnectMethods : request(method)
    \/ Call
    \/ \E m \in Messages : WindowMessage(m)
    \/ DialogCloseEvent
    \/ \E how \in {"escape", "backdrop"} : UserClose(how)
    \/ PopupClosed
    \/ PopupPollTimer
    \/ connect_afterConnectModal
    \/ connect_afterAuthModal
    \/ \E ok \in BOOLEAN, a \in Addresses : AccountResponse(ok, a)
    \/ \E next \in ChainIds : wallet_switchEthereumChain(next)

SpecConnect == InitConnect /\ [][NextConnect]_vars

\* wallet_disconnect requests served while or after a connect request
MaxDisconnect == 1

\* localStorage.removeItem(storageKey)
clearStoredUser(st, key) == [st EXCEPT ![key] = "none"]

\* request({method: "wallet_disconnect"}) / provider.disconnect(), asked while
\* a connect request is being served or after it: clearStoredUser, then the
\* two notifications
wallet_disconnect ==
    /\ pc # "provider"
    /\ Cardinality({i \in DOMAIN prov.emitted :
                      prov.emitted[i].event = "disconnect"}) < MaxDisconnect
    /\ lastEvt' = "task"
    /\ UNCHANGED batch
    /\ LET st == clearStoredUser(storage, storageKey)
           e1 == emit(prov.emitted, "accountsChanged", <<>>, st, storageKey)
           e2 == emit(e1, "disconnect", <<>>, st, storageKey)
       IN  /\ storage' = st
           /\ prov' = [prov EXCEPT !.emitted = e2]
    /\ UNCHANGED <<op, opts, storageKey, pc, dialog, hs, waiterL, cw, auth,
                   popup, posted, net, pipe, calls, returns, result, hist>>

NextDisconnect ==
    \/ NextConnect
    \/ wallet_disconnect

SpecDisconnect == InitConnect /\ [][NextDisconnect]_vars

(***************************************************************************)
(* Provider: wallet_sendCalls / eth_sendTransaction                        *)
(***************************************************************************)
\* a JavaScript value as the provider's parsers see it: its typeof, and for a
\* number its integer part n and what kind of number it is ("int", "frac" for
\* n + 0.5, "huge" for 1e21), for a bigint its value n, for a string its text
JsVal(t, n, s) == [t |-> t, n |-> n, s |-> s]

JsUndefined == JsVal("undefined", 0, "")

\* String(n) of a non-negative integer below 1e21
RECURSIVE Dec(_)
Dec(n) ==
    IF n < 10 THEN SubSeq("0123456789", n + 1, n + 1)
    ELSE Dec(n \div 10) \o SubSeq("0123456789", (n % 10) + 1, (n % 10) + 1)

\* value.startsWith(prefix)
startsWith(str, prefix) ==
    Len(str) >= Len(prefix) /\ SubSeq(str, 1, Len(prefix)) = prefix

\* the digits of base `base` that text consists of, or <<-1>> when some
\* character is not such a digit or there is none
RECURSIVE Digits(_, _)
Digits(text, base) ==
    IF Len(text) = 0 THEN <<>>
    ELSE LET c == SubSeq(text, 1, 1)
             ds == {d \in 0..(base - 1) : HexDigit(d) = c}
             rest == Digits(SubSeq(text, 2, Len(text)), base)
         IN  IF ds = {} \/ rest = <<-1>> THEN <<-1>>
             ELSE <<CHOOSE d \in ds : TRUE>> \o rest

RECURSIVE ValueOf(_, _)
ValueOf(ds, base) ==
    IF Len(ds) = 0 THEN 0
    ELSE ValueOf(SubSeq(ds, 1, Len(ds) - 1), base) * base + ds[Len(ds)]

\* a numeric literal: [ok, n]; not ok where BigInt() throws and parseInt and
\* Number give NaN
ParseDigits(text, base) ==
    LET ds == Digits(text, base)
    IN  IF ds = <<>> \/ ds = <<-1>> THEN [ok |-> FALSE, n |-> 0]
        ELSE [ok |-> TRUE, n |-> ValueOf(ds, base)]

\* Math.trunc(value).toString() of a number
truncToString(v) == IF v.s = "huge" THEN "1e+21" ELSE Dec(v.n)

\* normalizeValue: a string, or "undefined"
normalizeValue(v) ==
    IF v.t \in {"undefined", "null"} THEN "undefined"
    ELSE IF v.t = "bigint" THEN Dec(v.n)
    ELSE IF v.t = "number" THEN truncToString(v)
    ELSE IF v.t = "string"
    THEN IF startsWith(v.s, "0x")
         THEN LET big == ParseDigits(SubSeq(v.s, 3, Len(v.s)), 16)
              IN  IF big.ok THEN Dec(big.n) ELSE "0"
         ELSE v.s
    ELSE "undefined"

\* normalizeCalls (label and sublabel are passed through and left out here)
normalizeCalls(cs) ==
    [i \in DOMAIN cs |->
        [to |-> cs[i].to,
         data |-> IF Falsy(cs[i].data) THEN "0x" ELSE cs[i].data,
         value |-> LET x == normalizeValue(cs[i].value)
                   IN  IF Falsy(x) THEN "0" ELSE x]]

\* parseChainId: [kind, n] with kind "number", "NaN" or "undefined"
parseChainId(v) ==
    IF v.t = "number" THEN [kind |-> "number", n |-> v.n]
    ELSE IF v.t = "string"
    THEN IF startsWith(v.s, "0x")
         THEN LET x == ParseDigits(SubSeq(v.s, 3, Len(v.s)), 16)
              IN  IF x.ok THEN [kind |-> "number", n |-> x.n]
                  ELSE [kind |-> "NaN", n |-> 0]
         ELSE LET x == ParseDigits(v.s, 10)
              IN  IF x.ok THEN [kind |-> "number", n |-> x.n]
                  ELSE IF v.s = "" THEN [kind |-> "number", n |-> 0]
                  ELSE [kind |-> "undefined", n |-> 0]
    ELSE [kind |-> "undefined", n |-> 0]

\* parseChainId(payload.chainId) ?? chainId
targetChainOf(v, chainId) ==
    LET parsed == parseChainId(v)
    IN  IF parsed.kind = "undefined" THEN [kind |-> "number", n |-> chainId]
        ELSE parsed

\* options.waitForHash ?? true
waitForHashOf(p) == IF p.waitForHash = "undefined" THEN TRUE ELSE p.waitForHash = "true"

\* provider sendIntent: closeOn
closeOnFor(p) == IF waitForHashOf(p) THEN "completed" ELSE "preconfirmed"

\* the options client.sendIntent receives, as the pipeline reads them
intentOptions(p) ==
    [(IF p.signer THEN SignedOptions ELSE DefaultOptions) EXCEPT
        !.closeOn = closeOnFor(p), !.waitForHash = waitForHashOf(p)]

SendMethods == {"eth_sendTransaction", "wallet_sendCalls"}

NoChain == [kind |-> "undefined", n |-> 0]

\* request({method, params: [payload]}) for eth_sendTransaction and
\* wallet_sendCalls, up to client.sendIntent(...): ensureUser, target chain,
\* normalizeCalls, resolveIntentPayload (the signer answers or throws), and the
\* argument of client.sendIntent.  For eth_sendTransaction the calls are [tx].
sendCalls(method, payload, signerOk) ==
    /\ pc = "provider"
    /\ method = "eth_sendTransaction" => Len(payload.calls) = 1
    /\ lastEvt' = "task"
    /\ UNCHANGED batch
    /\ UNCHANGED <<storageKey, storage, dialog, hs, waiterL, cw, auth, popup,
                   posted, net, pipe, calls, hist, returns, result>>
    /\ LET stored == getStoredUser(storage, storageKey)
           targetChain == targetChainOf(payload.chainId, prov.chainId)
           normalized == normalizeCalls(payload.calls)
           p == [prov EXCEPT !.method = method]
           signerArg == [username |-> stored.username,
                         accountAddress |-> stored.address,
                         targetChain |-> targetChain, calls |-> normalized]
           signed == [p EXCEPT !.signerCalls = Append(@, signerArg)]
           common == [closeOn |-> closeOnFor(prov),
                      waitForHash |-> waitForHashOf(prov)]
       IN  IF ~stored.present
           THEN /\ op' = "connectWithModal"
                /\ pc' = "idle"
                /\ prov' = p
                /\ UNCHANGED opts
           ELSE IF method = "wallet_sendCalls" /\ Len(normalized) = 0
           THEN /\ prov' = [p EXCEPT !.ret = Rejected]
                /\ pc' = "providerDone"
                /\ UNCHANGED <<op, opts>>
           ELSE IF prov.signer /\ ~signerOk
           THEN /\ prov' = [signed EXCEPT !.ret = Rejected]
                /\ pc' = "providerDone"
                /\ UNCHANGED <<op, opts>>
           ELSE /\ prov' =
                     IF prov.signer
                     THEN [signed EXCEPT !.sent = Append(@,
                              [signedIntent |-> TRUE, username |-> "undefined",
                               targetChain |-> NoChain, calls |-> <<>>,
                               closeOn |-> common.closeOn,
                               waitForHash |-> common.waitForHash])]
                     ELSE [p EXCEPT !.sent = Append(@,
                              [signedIntent |-> FALSE,
                               username |-> stored.username,
                               targetChain |-> targetChain,
                               calls |-> normalized,
                               closeOn |-> common.closeOn,
                               waitForHash |-> common.waitForHash])]
                /\ op' = "sendIntent"
                /\ opts' = intentOptions(prov)
                /\ pc' = "idle"

\* provider sendIntent after `await client.sendIntent(...)`
sendIntent_afterClient ==
    /\ pc = "done" /\ op = "sendIntent" /\ prov.method \in SendMethods
    /\ lastEvt' = "task"
    /\ UNCHANGED batch
    /\ UNCHANGED <<op, opts, storageKey, storage, dialog, hs, waiterL, cw, auth,
                   popup, posted, net, pipe, calls, returns, result, hist>>
    /\ IF ~result.success
       THEN throw
       ELSE /\ prov' = [prov EXCEPT !.ret = Resolved("callsId", <<result.intentId>>)]
            /\ pc' = "providerDone"

\* the values a dapp puts into a call's `value`: absent, null, a bigint, an
\* integer, 2.5, 1e21, decimal and hexadecimal text, "0x", ""
CallValues ==
    {JsUndefined, JsVal("null", 0, ""), JsVal("bigint", 2, ""),
     JsVal("number", 2, "int"), JsVal("number", 2, "frac"),
     JsVal("number", 0, "huge"), JsVal("string", 0, "12"),
     JsVal("string", 0, "0x1f"), JsVal("string", 0, "0x"),
     JsVal("string", 0, "")}

CallData == {"undefined", "0xabcd"}

RawCalls == [to : {"0xto"}, data : CallData, value : CallValues]

\* calls per request
MaxCalls == 1

CallLists == UNION {[1..n -> RawCalls] : n \in 0..MaxCalls}

\* the chainId a request carries: none, 10 as a number, as hexadecimal and as
\* decimal text
ChainIdInputs ==
    {JsUndefined, JsVal("number", 10, "int"), JsVal("string", 0, "0xa"),
     JsVal("string", 0, "10")}

SendPayloads == [chainId : ChainIdInputs, calls : CallLists]

\* a provider with a Stored User, under every configuration of signer and
\* waitForHash
InitForward ==
    /\ op = "none"
    /\ opts = DefaultOptions
    /\ storageKey = DEFAULT_STORAGE_KEY
    /\ storage = [k \in StorageKeys |-> IF k = storageKey THEN "user" ELSE "none"]
    /\ pc = "provider"
    /\ prov \in {[NoProv EXCEPT !.chainId = c, !.signer = sg, !.waitForHash = w] :
                    c \in ChainIds, sg \in BOOLEAN,
                    w \in {"undefined", "true", "false"}}
    /\ InitSession

NextForward ==
    \E method \in SendMethods, payload \in SendPayloads, signerOk \in BOOLEAN :
        sendCalls(method, payload, signerOk)

SpecForward == InitForward /\ [][NextForward]_vars

\* one request with one plain call, followed through the Intent Pipeline
PlainPayload ==
    [chainId |-> JsUndefined,
     calls |-> <<[to |-> "0xto", data |-> "undefined", value |-> JsUndefined]>>]

InitSendCalls ==
    /\ InitForward
    /\ prov.chainId = 10

NextSendCalls ==
    \/ \E method \in SendMethods, signerOk \in BOOLEAN :
          sendCalls(method, PlainPayload, signerOk)
    \/ Call
    \/ \E o \in PrepareOutcomes : PrepareResponse(o)
    \/ \E ok \in {"ok", "httpError", "networkError"}, r \in StatusReplies :
          ExecuteResponse(ok, r.status, r.hash)
    \/ \E ok \in BOOLEAN, r \in StatusReplies : StatusResponse(ok, r.status, r.hash)
    \/ PollTimer
    \/ \E ok \in BOOLEAN, r \in StatusReplies : HashResponse(ok, r.status, r.hash)
    \/ \E expired \in BOOLEAN : HashTimer(expired)
    \/ \E m \in Messages : WindowMessage(m)
    \/ DialogCloseEvent
    \/ \E how \in {"escape", "backdrop"} : UserClose(how)
    \/ sendIntent_afterClient

SpecSendCalls == InitSendCalls /\ [][NextSendCalls]_vars

(***************************************************************************)
(* Properties                                                              *)
(***************************************************************************)
\* C1: a message whose origin is not the dialog origin is discarded by every
\* registered listener: the step that delivers it changes no program state
\* (no promise resolved, no listener removed, no cleanup, nothing posted) and
\* leaves the Stored User untouched.
C1_MessageChannelGuard ==
    [][lastEvt' = "foreign" => UNCHANGED <<progVars, storage>>]_vars

\* a foreign message was delivered while a result waiter was listening
C1_Witness == lastEvt = "foreign" /\ waiterL /\ dialog.hostL

\* C2: in every Ready Handshake run PASSKEY_INIT has been posted to the frame
\* if and only if a guarded ready signal was received by the handshake.
C2_InitIffReady ==
    op \in HandshakeOps => (posted.init > 0 <=> hist.readyDelivered)

\* C3: a wait primitive that has resolved has no listener left: the close
\* waiter's message and "close" listeners are both gone once its promise is
\* resolved.
C3_ListenersGoneOnResolve ==
    cw.promise = "resolved" => ~cw.msgL /\ ~cw.closeL

\* the Session was closed from the host page (escape key, backdrop click)
\* after the handshake succeeded, while the result waiter is pending
ClosedWhileResultPending ==
    pc = "waitResult" /\ waiterL /\ posted.init > 0 /\ ~dialog.inDoc

\* C4: a close by escape key or backdrop click while a result is pending
\* leads to the operation's promise resolving.
C4_HostCloseCancels == [](ClosedWhileResultPending => <>(pc = "done"))

\* the Session is closed while sendIntent is in its poll loop: "pending" reached
\* the frame when the loop began, and the dialog is gone now
ClosedDuringPipeline ==
    /\ op = "sendIntent" /\ pc \in {"pollFetch", "pollSleep"}
    /\ posted.statuses # <<>> /\ ~dialog.inDoc

\* C5: sendIntent returns even when the Session was closed while the
\* status-polling loop was still in progress.
C5_ReturnsAfterEarlyClose == [](ClosedDuringPipeline => <>(pc = "done"))

\* C6: cleanup is idempotent: a step that invokes cleanup again leaves the
\* dialog and the host listeners as the first invocation left them (absent
\* from the document, closed, both listeners removed), and the operation's
\* promise is resolved at most once.
C6_CleanupIdempotent ==
    [][(calls.cleanup >= 1 /\ calls'.cleanup > calls.cleanup) =>
          /\ dialog'.inDoc = dialog.inDoc /\ dialog'.open = dialog.open
          /\ dialog'.hostL = dialog.hostL /\ dialog'.keyL = dialog.keyL
          /\ ~dialog'.inDoc /\ ~dialog'.open /\ ~dialog'.hostL /\ ~dialog'.keyL
          /\ returns' <= 1]_vars

\* cleanup ran at least twice and the operation has resolved
C6_Witness ==
    calls.cleanup >= 2 /\ returns = 1 /\ ~dialog.inDoc /\ ~dialog.hostL

\* C7: when an operation's promise resolves its Session is destroyed: the
\* dialog is closed and out of the document, the host listeners removed.
C7_DestroyedOnReturn ==
    pc = "done" => ~dialog.inDoc /\ ~dialog.open /\ ~dialog.hostL /\ ~dialog.keyL

\* the condition C8 names, on the options as the caller gave them
InvalidOptions(o) ==
    \/ o.signed /\ ~o.siMerchantId /\ ~o.siDeveloperId
    \/ ~o.username /\ ~(o.signed /\ o.siUsername)
          /\ ~(o.signed /\ o.siAccountAddress)
    \/ ~o.targetChain /\ ~(o.signed /\ o.siTargetChain)
    \/ (IF o.signed /\ o.siCalls # "undefined" THEN o.siCalls ELSE o.calls)
          # "nonempty"

\* C8: with options that fail the validation sendIntent returns the failed
\* INVALID_OPTIONS result with an empty intent id, has issued no network
\* request and has opened no dialog.
C8_ValidationIsLocal ==
    (pc # "idle" /\ InvalidOptions(opts)) =>
        /\ pc = "done"
        /\ result = Res(FALSE, "INVALID_OPTIONS", "failed", "", "none")
        /\ net = [prepare |-> 0, batchPrepare |-> 0, execute |-> 0, status |-> 0]
        /\ dialog = NoDialog

\* a signed intent without a target chain was rejected
C8_Witness ==
    /\ pc = "done" /\ opts.signed /\ opts.siDeveloperId /\ opts.siAccountAddress
    /\ ~opts.siTargetChain /\ ~opts.targetChain /\ opts.siCalls = "nonempty"
    /\ result.code = "INVALID_OPTIONS"

\* C9: after the prepare endpoint answered "User not found" and the call
\* returned, the provider's eth_accounts is empty and the result carries
\* USER_NOT_FOUND.
C9_UserNotFoundClears ==
    (hist.userNotFound /\ pc = "done") =>
        /\ eth_accounts(storage, storageKey) = <<>>
        /\ result.code = "USER_NOT_FOUND"

\* the order of the closeOn levels; every other status is below them all
Level(status) ==
    CASE status = "claimed" -> 1
      [] status = "preconfirmed" -> 2
      [] status = "filled" -> 3
      [] status = "completed" -> 4
      [] OTHER -> 0

\* C10: sendIntent returns success only when the last status observed is at
\* or above the caller's closeOn level (preconfirmed when none is given);
\* failed and expired are below every level.
C10_CloseOnThreshold ==
    (op = "sendIntent" /\ pc = "done" /\ result.success) =>
        Level(hist.lastObserved) >= Level(closeOnOf(opts))

\* closeOn "completed" was met by a status that reached completed
C10_Witness ==
    /\ op = "sendIntent" /\ pc = "done" /\ result.success
    /\ opts.closeOn = "completed" /\ hist.lastObserved = "completed"

\* C11: when waitForHash is requested and the execute response carried a
\* transaction hash, waitForTransactionHash is never running and the result
\* returned carries that hash.
C11_ExecuteHashSkipsPoller ==
    (op = "sendIntent" /\ opts.waitForHash /\ hist.executeHash # "none") =>
        /\ pc \notin {"hashFetch", "hashSleep"}
        /\ pc = "done" => result.transactionHash = hist.executeHash

\* C12: the hash wait runs exactly when waitForHash was requested and no hash
\* is known once the Session is closed, and its timeout turns the result into
\* success=false, status failed, code HASH_TIMEOUT whatever the polled status.
C12_HashTimeout ==
    /\ [](pc \in {"hashFetch", "hashSleep"} =>
            op = "sendIntent" /\ opts.waitForHash /\ pipe.finalTxHash = "none")
    /\ []((hist.hashTimedOut /\ pc = "done") =>
            /\ ~result.success /\ result.status = "failed"
            /\ result.code = "HASH_TIMEOUT")
    /\ [][(op = "sendIntent" /\ pc = "waitClose" /\ pc' # pc /\ opts.waitForHash
              /\ pipe.finalTxHash = "none") => pc' = "hashFetch"]_vars

\* the hash wait timed out although the polled status met the threshold
C12_Witness ==
    /\ hist.hashTimedOut /\ pc = "done" /\ pipe.isSuccessStatus
    /\ result.code = "HASH_TIMEOUT"

\* C13: no result of sendIntent has status failed together with a
\* transaction hash.
C13_FailedHasNoHash ==
    (op = "sendIntent" /\ pc = "done" /\ result.status = "failed") =>
        result.transactionHash = "none"

\* C14: every result of sendBatchIntent has successCount + failureCount equal
\* to the number of results, and success exactly when failureCount is 0.
C14_BatchCounts ==
    (op = "sendBatchIntent" /\ pc = "done") =>
        /\ result.successCount + result.failureCount = Len(result.results)
        /\ result.success <=> result.failureCount = 0

ExecuteErrors == {"EXECUTE_FAILED", "NETWORK_ERROR"}

\* C15: a failed execute request never returns at once: in that step "failed"
\* is posted to the frame (when there still is one), the close wait begins
\* and nothing is returned; past the prepare step an EXECUTE_FAILED or
\* NETWORK_ERROR result is returned only out of that close wait, with the
\* Session closed.
C15_ExecuteFailureWaitsForClose ==
    /\ [][(pc = "execute" /\ pc' # pc) =>
            /\ pc' # "done" /\ returns' = returns
            /\ pc' = "waitCloseFailed" =>
                  /\ cw'.promise = "pending"
                  /\ dialog.inDoc =>
                        posted'.statuses = Append(posted.statuses, "failed")]_vars
    /\ [][(result'.code \in ExecuteErrors /\ result.code \notin ExecuteErrors
              /\ pc # "prepare") =>
            /\ pc = "waitCloseFailed" /\ result'.code = pipe.pendingError
            /\ ~dialog'.inDoc /\ ~dialog'.open]_vars
    /\ [](pc = "waitCloseFailed" => pipe.pendingError \in ExecuteErrors)

\* the execute error was returned after "failed" reached the frame and the
\* Session was closed
C15_Witness ==
    /\ pc = "done" /\ result.code = "EXECUTE_FAILED"
    /\ posted.statuses = <<"failed">> /\ ~dialog.inDoc

\* what step 7 shows for a final status under the caller's closeOn
Display(status) ==
    IF Level(status) >= Level(closeOnOf(opts)) THEN "confirmed" ELSE status

\* C16: the step that ends polling posts one final status to the frame (when
\* there still is one) after at most the status update of that same response:
\* "confirmed" when the last status met the closeOn level, else that status;
\* it begins the close wait without returning, and a result with an intent id
\* is returned only with the Session closed.
C16_OneFinalStatus ==
    /\ [][(op = "sendIntent" /\ pc # "waitClose" /\ pc' = "waitClose") =>
            /\ returns' = returns /\ cw'.promise = "pending"
            /\ IF dialog.inDoc
               THEN /\ posted'.statuses # <<>>
                    /\ posted'.statuses[Len(posted'.statuses)] =
                          Display(pipe'.finalStatus)
                    /\ SubSeq(posted'.statuses, 1, Len(posted'.statuses) - 1) \in
                          {posted.statuses,
                           Append(posted.statuses, pipe'.finalStatus)}
               ELSE posted' = posted]_vars
    /\ []((op = "sendIntent" /\ pc = "done" /\ result.intentId # "") =>
            ~dialog.inDoc /\ ~dialog.open)

\* sendIntent returned success after "confirmed" was the last status posted
C16_Witness ==
    /\ op = "sendIntent" /\ pc = "done" /\ result.success /\ ~dialog.inDoc
    /\ posted.statuses # <<>>
    /\ posted.statuses[Len(posted.statuses)] = "confirmed"

\* C17: the status poller (waitForTransactionHash).  A response that is OK and
\* carries a transaction hash ends the poll at once with that hash (whatever
\* status it reports); an OK response without a hash that reports failed or
\* expired ends it with nothing, which sendIntent turns into HASH_TIMEOUT; a
\* network error, a non-OK response or any other status returns nothing to the
\* caller and leads to the interval sleep; after the sleep the deadline check
\* either ends the poll with nothing or starts exactly one more fetch.
C17_StatusPoller ==
    /\ [][pc = "hashFetch" =>
            \A ok \in BOOLEAN, r \in StatusReplies :
                HashResponse(ok, r.status, r.hash) =>
                    IF ok /\ r.hash # "none"
                    THEN /\ pc' = "done" /\ returns' = returns + 1
                         /\ result'.transactionHash = r.hash
                         /\ result'.code = "none" /\ result'.status = "completed"
                    ELSE IF ok /\ r.status \in {"failed", "expired"}
                    THEN /\ pc' = "done" /\ returns' = returns + 1
                         /\ result'.transactionHash = "none"
                         /\ result'.code = "HASH_TIMEOUT"
                    ELSE /\ pc' = "hashSleep" /\ returns' = returns
                         /\ result' = result]_vars
    /\ [][pc = "hashSleep" =>
            \A expired \in BOOLEAN :
                HashTimer(expired) =>
                    IF expired
                    THEN /\ pc' = "done" /\ returns' = returns + 1
                         /\ result'.transactionHash = "none"
                         /\ result'.code = "HASH_TIMEOUT"
                    ELSE /\ pc' = "hashFetch" /\ returns' = returns
                         /\ net'.status = net.status + 1]_vars
    /\ [][(pc \in {"hashFetch", "hashSleep"} /\ pc' # pc) =>
            \/ \E ok \in BOOLEAN, r \in StatusReplies :
                  HashResponse(ok, r.status, r.hash)
            \/ \E expired \in BOOLEAN : HashTimer(expired)]_vars

\* the poller slept once after a response it could not use and then returned
\* the hash of a later response
C17_Witness ==
    /\ op = "sendIntent" /\ opts.waitForHash /\ pc = "done"
    /\ pipe.hashPolls >= 1
    /\ result.transactionHash = "0xhash" /\ result.status = "completed"

\* C18: retry in popup.  In the auth, connect and authenticate flows, when a
\* PASSKEY_RETRY_POPUP message of the dialog origin is delivered while the
\* flow's waiter listens, that step removes the waiter's listener, tears the
\* dialog down and leaves the popup waiter listening; the result the popup
\* waiter resolves with is the result of the call; and a retry message
\* delivered to the popup waiter starts nothing.
RetryFlows == {"authWithModal", "connectWithModal", "authenticate"}

\* the retry messages the hosted UI can send from the dialog origin
RetryMessages ==
    { m \in Messages : m.type = "PASSKEY_RETRY_POPUP" /\ OriginOk(m.origin) }

C18_RetryInPopup ==
    /\ [][(op \in RetryFlows /\ waiterL) =>
            \A m \in RetryMessages :
                WindowMessage(m) =>
                    /\ ~waiterL' /\ ~dialog'.inDoc /\ ~dialog'.open
                    /\ popup'.msgL /\ pc' = "waitPopup"
                    /\ returns' = returns]_vars
    /\ [][PopupL =>
            \A m \in RetryMessages :
                WindowMessage(m) => UNCHANGED progVars]_vars
    /\ [][(pc = "waitPopup" /\ pc' # pc) =>
            /\ pc' = "done" /\ returns' = returns + 1
            /\ ~popup'.msgL /\ ~popup'.timer]_vars

\* C19: Sessions open at the same time do not interfere.  A ready, result,
\* close or refresh message posted by the hosted UI of another Session is
\* delivered to this Session's listeners without resolving or cancelling
\* anything, tearing anything down or triggering a send: the step leaves the
\* whole state of this Session's operation unchanged.
IsolatedTypes ==
    {"PASSKEY_READY", "PASSKEY_CLOSE", "PASSKEY_REFRESH_QUOTE"} \cup ResultTypes

OtherSessionMessages ==
    { m \in Messages : m.source = "otherSession" /\ m.type \in IsolatedTypes }

C19_SessionsIsolated ==
    [][(ReadyL \/ waiterL \/ CloseL) =>
          \A m \in OtherSessionMessages :
              WindowMessage(m) => UNCHANGED progVars]_vars

\* C20: a Stored User item that does not parse, or that parses to something
\* without a username or without an address, is the same to the provider as
\* no item: eth_accounts is the empty list, eth_accounts answers with it, and
\* every method that needs a user starts client.connectWithModal() and returns
\* nothing yet, instead of running its client operation with the partial
\* record.
PartialItems == StoredItems \ {"none", "user"}

AbsentItems == PartialItems \cup {"none"}

C20_PartialRecordAbsent ==
    /\ [](storage[storageKey] \in AbsentItems =>
            eth_accounts(storage, storageKey) = <<>>)
    /\ [][storage[storageKey] \in AbsentItems =>
            \A method \in ProviderMethods :
                request(method) =>
                    IF method = "eth_accounts"
                    THEN pc' = "done" /\ result'.accounts = <<>>
                    ELSE /\ pc' = "idle" /\ op' = "connectWithModal"
                         /\ returns' = returns]_vars
    /\ [](op \in {"signMessage", "signTypedData", "sendIntent"} =>
            storage[storageKey] = "user")

\* a record without address, and the connect dialog opened for it
C20_Witness ==
    /\ storage[storageKey] = "noAddress"
    /\ op = "connectWithModal" /\ pc = "waitReady" /\ dialog.open

\* C21: wallet_connect / eth_requestAccounts without a Stored User.  When the
\* dialogs gave a username and the address lookup answers with an address a,
\* that step stores the complete record under the provider's key, appends
\* accountsChanged carrying [a] and then connect carrying the hex of the
\* current chain id (both seen by listeners with the record already stored),
\* emits nothing else, and resolves the request with [a]; and no run ever
\* holds more than one accountsChanged or more than one connect notification.
ChainHex == [c \in ChainIds |-> IF c = 10 THEN "0xa" ELSE "0x2105"]

EventCount(emitted, event) ==
    Cardinality({i \in DOMAIN emitted : emitted[i].event = event})

C21_ConnectStoresAndNotifies ==
    /\ [][pc = "lookup" =>
            \A a \in Addresses \ {"undefined"} :
                AccountResponse(TRUE, a) =>
                    /\ prov'.ret = Resolved("accounts", <<a>>)
                    /\ getStoredUser(storage', storageKey) =
                          [present |-> TRUE, username |-> prov.username,
                           address |-> a]
                    /\ prov'.emitted = prov.emitted \o
                          << [event |-> "accountsChanged", args |-> <<a>>,
                              accounts |-> <<a>>],
                             [event |-> "connect",
                              args |-> ChainHex[prov.chainId],
                              accounts |-> <<a>>] >>]_vars
    /\ [](/\ EventCount(prov.emitted, "accountsChanged") <= 1
          /\ EventCount(prov.emitted, "connect") <= 1)
    /\ [][prov'.emitted # prov.emitted =>
            \/ pc = "lookup"
            \/ \E next \in ChainIds : wallet_switchEthereumChain(next)]_vars

\* connected through the auth modal, on a chain switched to meanwhile
C21_Witness ==
    /\ pc = "providerDone" /\ prov.ret = Resolved("accounts", <<"0xaddress">>)
    /\ op = "authWithModal" /\ storage[storageKey] = "user"
    /\ Len(prov.emitted) = 3 /\ prov.emitted[1].event = "chainChanged"
    /\ prov.emitted[3] = [event |-> "connect", args |-> "0x2105",
                          accounts |-> <<"0xaddress">>]

\* C22: wallet_sendCalls and eth_sendTransaction resolve with the transaction
\* hash that the Intent Pipeline resolved for the submitted calls
C22_ReturnsTransactionHash ==
    (pc = "providerDone" /\ prov.method \in SendMethods
        /\ prov.ret.state = "resolved")
    => prov.ret.value = <<result.transactionHash>>

\* text made of decimal digits only
IsDecimal(text) == ParseDigits(text, 10).ok

\* C23: every call is forwarded as {to, data or "0x", value as a decimal string
\* or "0"}; the target chain is the request's chainId when it has one, else the
\* provider's; without a signer client.sendIntent gets (username, targetChain,
\* calls); with one the signer is invoked once with {username, accountAddress,
\* targetChain, calls} and client.sendIntent gets the Signed Intent; closeOn
\* is "completed" and waitForHash true unless waitForHash is configured false
C23_Forwarding ==
    [][\A method \in SendMethods, payload \in SendPayloads, signerOk \in BOOLEAN :
          (sendCalls(method, payload, signerOk) /\ op' = "sendIntent") =>
             LET chain == IF payload.chainId.t = "undefined" THEN prov.chainId
                          ELSE 10
                 forwarded ==
                    IF prov.signer THEN prov'.signerCalls[1]
                    ELSE prov'.sent[1]
                 off == prov.waitForHash = "false"
             IN  /\ Len(prov'.sent) = 1
                 /\ Len(prov'.signerCalls) = IF prov.signer THEN 1 ELSE 0
                 /\ prov'.sent[1].signedIntent = prov.signer
                 /\ forwarded.username = "alice"
                 /\ prov.signer => forwarded.accountAddress = "0xaddress"
                 /\ forwarded.targetChain = [kind |-> "number", n |-> chain]
                 /\ Len(forwarded.calls) = Len(payload.calls)
                 /\ \A i \in DOMAIN payload.calls :
                       /\ forwarded.calls[i].to = payload.calls[i].to
                       /\ forwarded.calls[i].data =
                             IF payload.calls[i].data = "undefined" THEN "0x"
                             ELSE payload.calls[i].data
                       /\ IsDecimal(forwarded.calls[i].value)
                       /\ payload.calls[i].value.t \in {"undefined", "null"}
                             => forwarded.calls[i].value = "0"
                 /\ prov'.sent[1].closeOn =
                       IF off THEN "preconfirmed" ELSE "completed"
                 /\ prov'.sent[1].waitForHash = ~off]_vars

\* C24: within one Session PASSKEY_INIT is posted to the frame at most once,
\* whatever guarded messages arrive, repeated ready signals included
C24_InitAtMostOnce == posted.init <= 1

\* the guarded close signals of the hosted UI
CloseMessages ==
    {m \in Messages : m.type = "PASSKEY_CLOSE" /\ m.origin = getDialogOrigin}

CancelCode ==
    [o \in HandshakeOps |->
        IF o \in SigningOps THEN "USER_REJECTED" ELSE "USER_CANCELLED"]

ResultMessages ==
    {m \in Messages : m.type \in ResultTypes /\ m.origin = getDialogOrigin}

\* the Session has a listener for the ready signal and has not seen it yet
AwaitingReady == hs.msgL \/ (AuthL /\ ~auth.dialogReady)

\* C26: a result message that arrives before the hosted UI signalled readiness
\* is ignored: nothing resolves, cleanup does not run, no listener is removed
C26_ResultBeforeReadyIgnored ==
    [][AwaitingReady =>
          \A m \in ResultMessages : WindowMessage(m) => UNCHANGED progVars]_vars

\* the guarded refresh-quote requests of the hosted UI
RefreshRequests ==
    {m \in Messages : m.type = "PASSKEY_REFRESH_QUOTE" /\ m.origin = getDialogOrigin}

\* the outer promise, the result listener and the dialog are left alone
WaiterUntouched ==
    UNCHANGED <<pc, waiterL, calls, result, returns, dialog, hs, cw>>

C28_LateRefreshIsNoOp ==
    [][(pipe.refreshing > 0 /\ ~contentWindow(dialog)) =>
          \A ok \in BOOLEAN :
             RefreshResponse(ok) => (posted' = posted /\ WaiterUntouched)]_vars

C28_Witness ==
    /\ op = "sendIntent" /\ pc = "done" /\ result.code = "USER_REJECTED"
    /\ ~dialog.inDoc /\ ~dialog.open
    /\ pipe.refreshes = 1 /\ pipe.refreshing = 0 /\ pipe.served = 2
    /\ posted.refreshComplete = 0 /\ posted.refreshError = 0

\* the guarded signing results of the hosted UI
SigningResults ==
    {m \in Messages : m.type = "PASSKEY_SIGNING_RESULT" /\ m.origin = getDialogOrigin}

\* the results sendIntent returns when signing did not succeed
NoSigningCodes ==
    {"USER_CANCELLED", "USER_REJECTED", "SIGNING_FAILED", "DIALOG_ERROR"}

\* C29: one sendIntent calls the execute endpoint at most once, and only on a
\* successful signing result with a signature and no intent ID, received after
\* the handshake; not after a cancelled handshake or a failed or cancelled
\* signing (the result then has no intent ID); a result with an intent ID is
\* taken as executed and the pipeline goes on to polling with that ID
C29_ExecuteAtMostOnce ==
    /\ [](op = "sendIntent" =>
            /\ net.execute <= 1
            /\ (pc = "done" /\ result.code \in NoSigningCodes)
                  => (net.execute = 0 /\ result.intentId = "")
            /\ pipe.intentId = "intent-dialog" => net.execute = 0)
    /\ [][(op = "sendIntent" /\ net'.execute # net.execute) =>
            /\ net.execute = 0 /\ net'.execute = 1
            /\ RefreshL /\ hs.settled /\ calls.readyResolve = 1
            /\ \E m \in SigningResults :
                  m.success /\ m.payload = "signature" /\ WindowMessage(m)]_vars
    /\ [][RefreshL =>
            \A m \in SigningResults :
               (m.success /\ m.payload = "intentId" /\ WindowMessage(m)) =>
                  /\ net'.execute = net.execute
                  /\ pipe'.intentId = "intent-dialog"
                  /\ pc' = "pollFetch" /\ net'.status = net.status + 1]_vars

C29_Witness ==
    /\ op = "sendIntent" /\ pc = "done" /\ result.success
    /\ net.execute = 1 /\ result.intentId = "intent-1" /\ net.status = 1

TerminalStatuses == {"completed", "failed", "expired"}

\* C31: when the status of the execute response is not terminal, sendIntent
\* polls the status endpoint before it pushes the final status; it skips the
\* polling only when that status is already terminal
C31_PollsUnlessTerminal ==
    [][pc = "execute" =>
          \A r \in StatusReplies :
             ExecuteResponse("ok", r.status, r.hash) =>
                (r.status \notin TerminalStatuses <=> pc' = "pollFetch")]_vars

DisconnectMessages ==
    {m \in Messages : m.type = "PASSKEY_DISCONNECT" /\ m.origin = getDialogOrigin}

\* C33: while the Session's dialog is open a guarded PASSKEY_DISCONNECT clears
\* the Stored User whatever operation runs, so that eth_accounts returns [];
\* after the Session's cleanup a disconnect message changes nothing
C33_DisconnectClearsUser ==
    [][\A m \in DisconnectMessages :
          WindowMessage(m) =>
             IF dialog.hostL
             THEN eth_accounts(storage', storageKey) = <<>>
             ELSE storage' = storage]_vars

\* C34: the prepare data sent to the execute endpoint is that of the most
\* recent successful prepare response, initial or refresh, received before the
\* signing result; a failed refresh leaves the kept data alone, and a refresh
\* answered after the signing result does not change the execute request
C34_ExecuteUsesLatestQuote ==
    /\ []((op = "sendIntent" /\ waiterL) => pipe.prepareResponse = pipe.served)
    /\ [][(op = "sendIntent" /\ pipe.refreshing > 0) =>
            /\ RefreshResponse(FALSE) => pipe'.prepareResponse = pipe.prepareResponse
            /\ RefreshResponse(TRUE) =>
                  (pipe'.served = pipe.served + 1
                      /\ pipe'.prepareResponse = pipe'.served)]_vars
    /\ [][(op = "sendIntent" /\ net'.execute # net.execute) =>
            (pipe'.executeBody = pipe.served /\ pipe.served >= 1)]_vars
    /\ [][(op = "sendIntent" /\ pipe.executeBody # 0) =>
            pipe'.executeBody = pipe.executeBody]_vars

C34_Witness ==
    /\ op = "sendIntent" /\ pc = "execute" /\ net.execute = 1
    /\ pipe.executeBody = 2 /\ pipe.served = 2 /\ posted.refreshComplete = 1

\* C35: on every path of sendIntent, the wait for a hash included, the result
\* is never {success: false, status: "completed"} and never success with
\* status failed or expired
C35_SuccessMatchesStatus ==
    (op = "sendIntent" /\ pc = "done") =>
        /\ ~(~result.success /\ result.status = "completed")
        /\ ~(result.success /\ result.status \in {"failed", "expired"})

\* C36: sendIntent reports HASH_TIMEOUT only when the wait for the hash ran
\* until its deadline, not when the status endpoint reported failed or expired
\* and the wait stopped before it
C36_TimeoutOnlyAtDeadline ==
    (op = "sendIntent" /\ pc = "done" /\ result.code = "HASH_TIMEOUT")
        => hist.hashTimedOut

\* C37: once a disconnect has completed, eth_accounts returns [] and a connect
\* that was in flight when it ran neither writes the Stored User again nor
\* emits accountsChanged with an account or connect after the disconnect
\* notification
C37_DisconnectIsFinal ==
    \A i \in DOMAIN prov.emitted :
        prov.emitted[i].event = "disconnect" =>
            /\ eth_accounts(storage, storageKey) = <<>>
            /\ \A j \in DOMAIN prov.emitted :
                  j > i => /\ prov.emitted[j].event # "connect"
                           /\ prov.emitted[j].event = "accountsChanged"
                                 => prov.emitted[j].args = <<>>

(***************************************************************************)
(* PayButton and the provider on one localStorage                          *)
(***************************************************************************)
\* JSON.stringify({ username }) as PayButton writes it: no address property
PayButtonRecord(username) == JSONstringify(username, "undefined")

\* where the page stands once PayButton has its username: before the
\* provider's first request, or after the request it already made
afterPayment == IF prov.ret = Pending THEN "provider" ELSE "payDone"

\* PayButton.executePayment(forceReauth) up to the username: the record under
\* "1auth-user" is read unless forceReauth (the retry after "User not found",
\* whose caller removed the record first); text that does not parse is
\* removed; without a username client.authWithModal() is called
executePayment(forceReauth) ==
    /\ pc \in {"provider", "providerDone"}
    /\ prov.method # "PayButton"
    /\ lastEvt' = "task"
    /\ UNCHANGED batch
    /\ prov' = [prov EXCEPT !.method = "PayButton"]
    /\ UNCHANGED <<opts, storageKey, net, pipe, returns, result, hist>>
    /\ LET raw == storage[DEFAULT_STORAGE_KEY]
           parsed == JSONparse(raw)
           username == IF forceReauth \/ raw = "none" \/ parsed.threw
                       THEN "undefined" ELSE parsed.username
       IN  /\ storage' = IF forceReauth \/ (raw # "none" /\ parsed.threw)
                         THEN clearStoredUser(storage, DEFAULT_STORAGE_KEY)
                         ELSE storage
           /\ IF Falsy(username)
              THEN /\ op' = "authWithModal"
                   /\ pc' = "idle"
                   /\ newSession
              ELSE /\ pc' = afterPayment
                   /\ UNCHANGED <<op, dialog, hs, waiterL, cw, auth, popup,
                                  posted, calls>>

\* executePayment after `await client.authWithModal()`: a username is written
\* under "1auth-user" as { username }; a cancelled or failed dialog returns
executePayment_afterAuth ==
    /\ pc = "done" /\ op = "authWithModal" /\ prov.method = "PayButton"
    /\ lastEvt' = "task"
    /\ UNCHANGED batch
    /\ pc' = afterPayment
    /\ storage' = IF result.success /\ ~Falsy(result.username)
                  THEN [storage EXCEPT
                           ![DEFAULT_STORAGE_KEY] = PayButtonRecord(result.username)]
                  ELSE storage
    /\ UNCHANGED <<op, opts, storageKey, dialog, hs, waiterL, cw, auth, popup,
                   posted, net, pipe, calls, returns, result, hist, prov>>

\* no record anywhere, provider not yet asked
InitPay ==
    /\ op = "none"
    /\ opts = DefaultOptions
    /\ storageKey \in StorageKeys
    /\ storage = [k \in StorageKeys |-> "none"]
    /\ pc = "provider"
    /\ prov \in {[NoProv EXCEPT !.chainId = c] : c \in ChainIds}
    /\ InitSession

NextPay ==
    \/ NextConnect
    \/ \E forceReauth \in BOOLEAN : executePayment(forceReauth)
    \/ executePayment_afterAuth

SpecPay == InitPay /\ [][NextPay]_vars

\* C38: the value under every Stored User key is absent or a complete
\* {username, address} record, one that getStoredUser hands back as a user
C38_StoredUserComplete ==
    \A k \in StorageKeys :
        storage[k] # "none" =>
            /\ storage[k] = "user"
            /\ getStoredUser(storage, k).present

(***************************************************************************)
(* authWithModal alone, with its retry in a popup                          *)
(***************************************************************************)
InitAuth ==
    /\ op = "authWithModal"
    /\ opts = DefaultOptions
    /\ storageKey \in StorageKeys
    /\ storage = [k \in StorageKeys |-> IF k = storageKey THEN "user" ELSE "none"]
    /\ InitCommon

NextAuth ==
    \/ Call
    \/ \E m \in Messages : WindowMessage(m)
    \/ DialogCloseEvent
    \/ \E how \in {"escape", "backdrop"} : UserClose(how)
    \/ PopupClosed
    \/ PopupPollTimer

SpecAuth == InitAuth /\ [][NextAuth]_vars

\* the call's own steps, the dialog's close event and the 500 ms interval run
\* whenever they can; messages and the user's actions are under no obligation
FairAuth ==
    /\ SpecAuth
    /\ WF_vars(Call)
    /\ WF_vars(DialogCloseEvent)
    /\ WF_vars(PopupPollTimer)

\* the popup wait has resolved and taken its timer and listener down
PopupWaitResolved == pc = "done" /\ ~popup.timer /\ ~popup.msgL

\* C39: a popup wait whose popup is closed, or was never opened
\* (window.open returned null), eventually resolves, and its close-poll timer
\* and message listener are then removed
C39_PopupWaitResolves ==
    (pc = "waitPopup" /\ popup.window \in {"closed", "null"}) ~> PopupWaitResolved

(***************************************************************************)
(* Batch Queue: BatchQueueProvider                                         *)
(***************************************************************************)
\* addToBatch calls in one run
MaxAdds == 3

\* setQueue calls waiting for one render
MaxUpdates == 2

\* every variable but batch
clientVars == <<op, opts, storageKey, storage, pc, dialog, hs, waiterL, cw,
                auth, popup, posted, net, pipe, calls, returns, result, hist,
                lastEvt, prov>>

\* the chains calls are queued for
BatchChains == {10, 8453}

\* batchChainId of the last render (0 for null)
batchChainId(queue) == IF Len(queue) > 0 THEN queue[1].targetChain ELSE 0

\* prev.filter(item => item.id !== id)
RECURSIVE filterId(_, _)
filterId(prev, id) ==
    IF prev = <<>> THEN <<>>
    ELSE IF Head(prev).id # id THEN <<Head(prev)>> \o filterId(Tail(prev), id)
    ELSE filterId(Tail(prev), id)

\* one setQueue argument applied to the state before it
applyUpdate(prev, u) ==
    CASE u.kind = "append" -> Append(prev, [id |-> u.id, targetChain |-> u.targetChain])
      [] u.kind = "filter" -> filterId(prev, u.id)
      [] OTHER -> <<>>

\* the setQueue arguments of one batch of updates, applied in the order given
RECURSIVE applyUpdates(_, _)
applyUpdates(prev, us) ==
    IF us = <<>> THEN prev
    ELSE applyUpdates(applyUpdate(prev, Head(us)), Tail(us))

\* setQueue(...): the update waits for the next render
setQueue(kind, id, targetChain) ==
    Append(batch.updates, [kind |-> kind, id |-> id, targetChain |-> targetChain])

\* addToBatch(call, targetChain) of the last render: the chain test reads the
\* batchChainId that render computed; generateId() gives a fresh id
addToBatch(targetChain) ==
    /\ batch.ids < MaxAdds
    /\ Len(batch.updates) < MaxUpdates
    /\ IF batchChainId(batch.queue) # 0 /\ batchChainId(batch.queue) # targetChain
       THEN batch' = [batch EXCEPT
                         !.ret = [success |-> FALSE, targetChain |-> targetChain]]
       ELSE batch' = [batch EXCEPT
                         !.updates = setQueue("append", batch.ids + 1, targetChain),
                         !.ids = @ + 1,
                         !.ret = [success |-> TRUE, targetChain |-> targetChain]]
    /\ UNCHANGED clientVars

\* removeFromBatch(id), for an id of the rendered queue
removeFromBatch(id) ==
    /\ Len(batch.updates) < MaxUpdates
    /\ \E i \in DOMAIN batch.queue : batch.queue[i].id = id
    /\ batch' = [batch EXCEPT !.updates = setQueue("filter", id, 0)]
    /\ UNCHANGED clientVars

\* clearBatch()
clearBatch ==
    /\ Len(batch.updates) < MaxUpdates
    /\ batch' = [batch EXCEPT !.updates = setQueue("set", 0, 0)]
    /\ UNCHANGED clientVars

\* the render after a batch of updates: queue takes the updates in order,
\* batchChainId and addToBatch are made anew, the save effect persists the
\* queue (or removes the entry when it is empty)
Render ==
    /\ batch.updates # <<>>
    /\ LET queue == applyUpdates(batch.queue, batch.updates)
       IN  batch' = [batch EXCEPT !.queue = queue, !.updates = <<>>,
                                  !.stored = queue]
    /\ UNCHANGED clientVars

InitBatch ==
    /\ op = "none"
    /\ opts = DefaultOptions
    /\ storageKey = DEFAULT_STORAGE_KEY
    /\ storage = [k \in StorageKeys |-> "none"]
    /\ InitCommon

NextBatch ==
    \/ \E targetChain \in BatchChains : addToBatch(targetChain)
    \/ \E id \in 1..MaxAdds : removeFromBatch(id)
    \/ clearBatch
    \/ Render

SpecBatch == InitBatch /\ [][NextBatch]_vars

\* C40: every call in the batch queue has the targetChain of the first
\* queued call
C40_SingleChain ==
    \A i \in DOMAIN batch.queue :
        batch.queue[i].targetChain = batchChainId(batch.queue)

====
